---- MODULE Spec2Model ----
(***************************************************************************)
(* A model of the duplicate finder (src/duplicate_finder): the deletion    *)
(* ledger kept by StatsTracker, the scanner's catalog (FileScanner and     *)
(* app.scan_results), the /api/delete handler, the directory summary of    *)
(* DirectoryAnalyzer and the size formatter; and of the storeShop Lambda   *)
(* (src/lambda/storeShop.py) over its two DynamoDB tables.                 *)
(*                                                                         *)
(* Timestamps (created_at, last_updated, deleted_at) are kept as keys of   *)
(* the ledger only; their values play no part in any property below.       *)
(***************************************************************************)
EXTENDS FiniteSets, Integers, Sequences, TLC

VARIABLES
  stats,         \* StatsTracker.stats: the ledger in memory
  stats_file,    \* the content of deletion_stats.json
  recorded,      \* history: the record_deletion calls that returned, [n, bytes]
  interrupted,   \* history: the last save that failed, [flag, before, after]
  response,      \* what the last call gave back to its caller
  fs,            \* the filesystem: path -> entry
  scan_results,  \* app.scan_results: [files, exact_duplicates]
  before,        \* history: scan_results and stats as the last request found them
  pc,            \* where a call is in its code: per request thread in
                 \* SpecConc, of the one call under way elsewhere
  local,         \* the local variables of the calls under way
  shopping_list_table,  \* the DynamoDB table ShoppingList: item key -> item
  shop_history_table    \* the DynamoDB table ShoppingList-ShopHistory-Dev: its records

vars == <<stats, stats_file, recorded, interrupted, response, fs, scan_results, before, pc, local,
          shopping_list_table, shop_history_table>>

----------------------------------------------------------------------------
(* Bounds of the model *)

\* record_deletion calls made in the ledger specification
MaxCalls == 1003
\* calls of the ledger specification that all record the same size, SizeOne
WarmUp == 998
\* record_deletion calls made in the storage specification
MaxStoreCalls == 3
\* the size every warm-up call records
SizeOne == 1
\* files removed through /api/delete in one run of the application
MaxDeletes == 2

(* Program constants *)

\* stats_tracker.py:57: the deletion history keeps the last 1000 entries
HistoryCap == 1000

----------------------------------------------------------------------------
(* Python values *)

\* sum(e['size_bytes'] for e in s[lo-1:hi]), by halves
RECURSIVE SumSizesIn(_, _, _)
SumSizesIn(s, lo, hi) ==
  IF lo > hi THEN 0
  ELSE IF lo = hi THEN s[lo].size_bytes
  ELSE LET mid == (lo + hi) \div 2
       IN SumSizesIn(s, lo, mid) + SumSizesIn(s, mid + 1, hi)

\* sum(e['size_bytes'] for e in s)
SumSizes(s) == SumSizesIn(s, 1, Len(s))

\* s[:n]
LastN_KeepsFirst(s, n) == IF Len(s) <= n THEN s ELSE SubSeq(s, 1, n)

\* s[-n:]
LastN(s, n) == IF Len(s) <= n THEN s ELSE SubSeq(s, Len(s) - n + 1, Len(s))

\* The keys of the stats dict, in the order _default_stats inserts them.
StatsKeys == <<"total_files_deleted", "total_bytes_saved", "deletions", "created_at", "last_updated">>

AllKeys == {StatsKeys[i] : i \in 1..Len(StatsKeys)}

\* StatsTracker._default_stats
DefaultStats ==
  [type |-> "dict", keys |-> AllKeys,
   total_files_deleted |-> 0, total_bytes_saved |-> 0, deletions |-> <<>>]

\* A JSON array: a value json.load can return that is no dict.
ListValue ==
  [type |-> "list", keys |-> {},
   total_files_deleted |-> 0, total_bytes_saved |-> 0, deletions |-> <<>>]

\* A dict that holds only the keys ks of d (a key it lacks has no value).
Restrict(d, ks) ==
  [type |-> "dict", keys |-> d.keys \cap ks,
   total_files_deleted |-> IF "total_files_deleted" \in ks THEN d.total_files_deleted ELSE 0,
   total_bytes_saved |-> IF "total_bytes_saved" \in ks THEN d.total_bytes_saved ELSE 0,
   deletions |-> IF "deletions" \in ks THEN d.deletions ELSE <<>>]

\* d has every field of a ledger record
IsLedger(d) == d.type = "dict" /\ d.keys = AllKeys

----------------------------------------------------------------------------
(* json.dump and json.load: the text of a file is the sequence of pieces   *)
(* json.dump writes, "{", one member per key, "}".                         *)

Piece(t, n, l) == [tok |-> t, n |-> n, l |-> l]

Member(d, k) ==
  Piece(k,
        IF k = "total_files_deleted" THEN d.total_files_deleted
        ELSE IF k = "total_bytes_saved" THEN d.total_bytes_saved ELSE 0,
        IF k = "deletions" THEN d.deletions ELSE <<>>)

RECURSIVE Members(_, _)
Members(d, i) ==
  IF i > Len(StatsKeys) THEN <<>>
  ELSE (IF StatsKeys[i] \in d.keys THEN <<Member(d, StatsKeys[i])>> ELSE <<>>)
       \o Members(d, i + 1)

\* json.dump(self.stats, f, indent=2): everything it writes
JsonDump(d) ==
  IF d.type = "list" THEN <<Piece("[", 0, <<>>), Piece("]", 0, <<>>)>>
  ELSE <<Piece("{", 0, <<>>)>> \o Members(d, 1) \o <<Piece("}", 0, <<>>)>>

\* json.load raises on this text
JsonRaises(text) ==
  \/ Len(text) < 2
  \/ /\ text # <<Piece("[", 0, <<>>), Piece("]", 0, <<>>)>>
     /\ \/ text[1].tok # "{"
        \/ text[Len(text)].tok # "}"
        \/ \E i \in 2..(Len(text) - 1) : text[i].tok \notin AllKeys

PieceOf(text, k) == CHOOSE i \in 2..(Len(text) - 1) : text[i].tok = k

\* json.load of a text it accepts
JsonLoad(text) ==
  IF text[1].tok = "[" THEN ListValue
  ELSE LET ks == {text[i].tok : i \in 2..(Len(text) - 1)}
           Num(k) == IF k \in ks THEN text[PieceOf(text, k)].n ELSE 0
       IN [type |-> "dict", keys |-> ks,
           total_files_deleted |-> Num("total_files_deleted"),
           total_bytes_saved |-> Num("total_bytes_saved"),
           deletions |-> IF "deletions" \in ks THEN text[PieceOf(text, "deletions")].l ELSE <<>>]

\* The stats file: absent, or present with a text; open() of a present file
\* fails when it is not accessible to the process.
NoFile == [exists |-> FALSE, accessible |-> TRUE, text |-> <<>>]
FileOf(text) == [exists |-> TRUE, accessible |-> TRUE, text |-> text]

----------------------------------------------------------------------------
(* StatsTracker *)

\* StatsTracker.load_stats
load_stats(f) ==
  IF f.exists
  THEN IF f.accessible /\ ~JsonRaises(f.text) THEN JsonLoad(f.text) ELSE DefaultStats
  ELSE DefaultStats

\* StatsTracker.save_stats: how the save went decides what the file holds.
\*   "ok"      the whole text is written
\*   "open"    open(..., 'w') raised: the file is as it was
\*   "write"   open truncated the file and the dump failed after k pieces
\* Every exception is swallowed (line 40): the caller sees none of this.
save_stats(f, d, how, k) ==
  CASE how = "ok" -> FileOf(JsonDump(d))
    [] how = "open" -> f
    [] how = "write" -> FileOf(SubSeq(JsonDump(d), 1, k))

\* The statements of record_deletion, in order; each needs a key and raises
\* KeyError (TypeError on a list) without it.
Raises45(d) == "total_files_deleted" \notin d.keys
After45(d) == [d EXCEPT !.total_files_deleted = @ + 1]
Raises46(d) == "total_bytes_saved" \notin d.keys
After46(d, file_size) == [d EXCEPT !.total_bytes_saved = @ + file_size]
After47(d) == IF d.type = "dict" THEN [d EXCEPT !.keys = @ \cup {"last_updated"}] ELSE d
Raises50(d) == "deletions" \notin d.keys
After50(d, file_path, file_size) ==
  [d EXCEPT !.deletions = Append(@, [file_path |-> file_path, size_bytes |-> file_size])]
\* A truncation that also takes the count from the history it keeps.
After57_Recount(d) ==
  IF Len(d.deletions) > HistoryCap
  THEN [d EXCEPT !.deletions = LastN(d.deletions, HistoryCap),
                 !.total_files_deleted = HistoryCap]
  ELSE d

\* Lines 57-58: keep only the last 1000 deletions.
After57(d) ==
  IF Len(d.deletions) > HistoryCap
  THEN [d EXCEPT !.deletions = LastN(d.deletions, HistoryCap)]
  ELSE d

\* record_deletion raises before it reaches save_stats
RecordRaises(d) == Raises45(d) \/ Raises46(d) \/ Raises50(d)

\* self.stats when record_deletion is over, by return or by exception
RecordStats(d, file_path, file_size) ==
  IF Raises45(d) THEN d
  ELSE IF Raises46(d) THEN After45(d)
  ELSE IF Raises50(d) THEN After47(After46(After45(d), file_size))
  ELSE After57(After50(After47(After46(After45(d), file_size)), file_path, file_size))

\* StatsTracker.get_stats raises KeyError (TypeError on a list)
GetStatsRaises(d) ==
  {"total_files_deleted", "total_bytes_saved", "created_at", "last_updated"} \ d.keys # {}

\* StatsTracker.get_stats, without the formatted size
get_stats(d) ==
  [total_files_deleted |-> d.total_files_deleted, total_bytes_saved |-> d.total_bytes_saved]

NoStats == [total_files_deleted |-> -1, total_bytes_saved |-> -1]

\* What a call gave back: the operation, its path argument, how it ended and
\* the stats snapshot it carries (NoStats when it carries none).
Response(op, path, status, snapshot) ==
  [op |-> op, path |-> path, status |-> status, stats |-> snapshot, recursive |-> FALSE,
   error |-> ""]

NoResponse == Response("none", "", "none", NoStats)

----------------------------------------------------------------------------
(* Values of the variables a specification does not use *)

IdleFs == <<>>
IdleScanResults == [files |-> <<>>, exact_duplicates |-> <<>>]
IdleBefore == [scan_results |-> IdleScanResults, stats |-> DefaultStats]
IdlePc == <<>>
IdleLocal == <<>>
IdleShoppingList == <<>>
IdleShopHistory == {}
NotInterrupted == [flag |-> FALSE, before |-> NoStats, after |-> NoStats]

----------------------------------------------------------------------------
(* SpecLedger: one StatsTracker, created with no stats file, driven the    *)
(* way the module's own __main__ drives it: record_deletion and get_stats  *)
(* calls, one after the other, on storage that works.                      *)

LedgerSizes == {0, SizeOne, 2048}
LedgerPaths == {"/d/a", "/d/b"}

\* The arguments of call number n + 1: the warm-up calls are all alike.
SizesAt(n) == IF n < WarmUp THEN {SizeOne} ELSE LedgerSizes
PathsAt(n) == IF n < WarmUp THEN {"/d/a"} ELSE LedgerPaths

InitLedger ==
  /\ stats_file = NoFile
  /\ stats = load_stats(stats_file)
  /\ recorded = [n |-> 0, bytes |-> 0]
  /\ interrupted = NotInterrupted
  /\ response = NoResponse
  /\ fs = IdleFs
  /\ scan_results = IdleScanResults
  /\ before = IdleBefore
  /\ pc = IdlePc
  /\ local = IdleLocal
  /\ shopping_list_table = IdleShoppingList
  /\ shop_history_table = IdleShopHistory

\* tracker.record_deletion(file_path, file_size)
LRecordDeletion(file_path, file_size) ==
  /\ recorded.n < MaxCalls
  /\ stats' = RecordStats(stats, file_path, file_size)
  /\ stats_file' = save_stats(stats_file, stats', "ok", 0)
  /\ recorded' = [n |-> recorded.n + 1, bytes |-> recorded.bytes + file_size]
  /\ response' = Response("record_deletion", file_path, "returned", NoStats)
  /\ UNCHANGED <<interrupted, fs, scan_results, before, pc, local, shopping_list_table, shop_history_table>>

\* tracker.get_stats()
LGetStats ==
  /\ response' = Response("get_stats", "", "returned", get_stats(stats))
  /\ UNCHANGED <<stats, stats_file, recorded, interrupted, fs, scan_results, before, pc, local, shopping_list_table, shop_history_table>>

NextLedger ==
  \/ \E p \in PathsAt(recorded.n), s \in SizesAt(recorded.n) : LRecordDeletion(p, s)
  \/ LGetStats

SpecLedger == InitLedger /\ [][NextLedger]_vars

\* C1: starting from a fresh zero-valued ledger, after N record_deletion
\* calls total_files_deleted is N and total_bytes_saved is the sum of the N
\* recorded sizes, also when N exceeds the 1000-entry history cap.
C1_Additive ==
  /\ stats.total_files_deleted = recorded.n
  /\ stats.total_bytes_saved = recorded.bytes

\* More calls than the history holds, of different sizes.
C1_Witness ==
  /\ recorded.n > HistoryCap
  /\ Len(stats.deletions) = HistoryCap
  /\ recorded.bytes > recorded.n + 2048
  /\ stats.total_files_deleted = recorded.n

----------------------------------------------------------------------------
(* SpecStore: StatsTracker on storage that can hold anything and can fail. *)
(* The tracker is created over whatever the stats file holds; saves may    *)
(* fail at open or partway through the dump; the process may die inside a  *)
(* save; a new session loads the file again; the file may be removed from  *)
(* outside.                                                                *)

StoreSizes == {2, 3}

\* A ledger an earlier session left behind.
LedgerOne == RecordStats(DefaultStats, "/d/a", 3)

\* What the stats file can be made to hold from outside the program.
StoreFiles ==
  { NoFile,
    FileOf(<<>>),
    FileOf(JsonDump(LedgerOne)),
    FileOf(SubSeq(JsonDump(LedgerOne), 1, 3)),
    FileOf(JsonDump(Restrict(LedgerOne, {}))),
    FileOf(JsonDump(Restrict(LedgerOne, {"total_files_deleted"}))),
    FileOf(JsonDump(Restrict(LedgerOne, AllKeys \ {"deletions"}))),
    FileOf(JsonDump(ListValue)),
    [FileOf(JsonDump(LedgerOne)) EXCEPT !.accessible = FALSE] }

\* How a save can go on file f, and how many pieces a failed dump wrote.
SaveOutcomes(f, d) ==
  IF f.exists /\ ~f.accessible THEN {<<"open", 0>>}
  ELSE {<<"ok", 0>>, <<"open", 0>>}
       \cup {<<"write", k>> : k \in 0..(Len(JsonDump(d)) - 1)}

InitStore ==
  /\ stats_file \in {NoFile, FileOf(JsonDump(LedgerOne))}
  /\ stats = load_stats(stats_file)
  /\ recorded = [n |-> 0, bytes |-> 0]
  /\ interrupted = NotInterrupted
  /\ response = Response("load", "", "returned", NoStats)
  /\ fs = IdleFs
  /\ scan_results = IdleScanResults
  /\ before = IdleBefore
  /\ pc = IdlePc
  /\ local = IdleLocal
  /\ shopping_list_table = IdleShoppingList
  /\ shop_history_table = IdleShopHistory

\* tracker.record_deletion(file_path, file_size), the save going as `how`
SRecordDeletion(file_path, file_size) ==
  /\ recorded.n < MaxStoreCalls
  /\ stats' = RecordStats(stats, file_path, file_size)
  /\ recorded' = [n |-> recorded.n + 1, bytes |-> recorded.bytes + file_size]
  /\ IF RecordRaises(stats)
     THEN /\ response' = Response("record_deletion", file_path, "raised", NoStats)
          /\ UNCHANGED <<stats_file, interrupted>>
     ELSE \E o \in SaveOutcomes(stats_file, stats') :
            /\ stats_file' = save_stats(stats_file, stats', o[1], o[2])
            /\ interrupted' =
                 IF o[1] = "ok" THEN NotInterrupted
                 ELSE [flag |-> TRUE, before |-> get_stats(stats), after |-> get_stats(stats')]
            /\ response' = Response("record_deletion", file_path, "returned", NoStats)
  /\ UNCHANGED <<fs, scan_results, before, pc, local, shopping_list_table, shop_history_table>>

\* The process dies inside save_stats, after open() truncated the file and
\* the dump wrote k pieces; the next session creates its tracker.
SCrashInSave(file_path, file_size) ==
  /\ recorded.n < MaxStoreCalls
  /\ ~RecordRaises(stats)
  /\ ~(stats_file.exists /\ ~stats_file.accessible)
  /\ LET d == RecordStats(stats, file_path, file_size)
     IN \E k \in 0..(Len(JsonDump(d)) - 1) :
          /\ stats_file' = save_stats(stats_file, d, "write", k)
          /\ interrupted' = [flag |-> TRUE, before |-> get_stats(stats), after |-> get_stats(d)]
  /\ stats' = load_stats(stats_file')
  /\ recorded' = [n |-> recorded.n + 1, bytes |-> recorded.bytes + file_size]
  /\ response' = Response("load", file_path, "returned", NoStats)
  /\ UNCHANGED <<fs, scan_results, before, pc, local, shopping_list_table, shop_history_table>>

\* A new session: StatsTracker() loads the file.
SRestart ==
  /\ stats' = load_stats(stats_file)
  /\ response' = Response("load", "", "returned", NoStats)
  /\ UNCHANGED <<stats_file, recorded, interrupted, fs, scan_results, before, pc, local, shopping_list_table, shop_history_table>>

\* tracker.get_stats()
SGetStats ==
  /\ response' = IF GetStatsRaises(stats)
                 THEN Response("get_stats", "", "raised", NoStats)
                 ELSE Response("get_stats", "", "returned", get_stats(stats))
  /\ UNCHANGED <<stats, stats_file, recorded, interrupted, fs, scan_results, before, pc, local, shopping_list_table, shop_history_table>>

\* The stats file is removed, replaced or made unreadable from outside the
\* program, between two sessions or under a running one.
SStoreChanged(f) ==
  /\ f # stats_file
  /\ stats_file' = f
  /\ interrupted' = NotInterrupted
  /\ response' = Response("store_changed", "", "none", NoStats)
  /\ UNCHANGED <<stats, recorded, fs, scan_results, before, pc, local, shopping_list_table, shop_history_table>>

NextStore ==
  \/ \E p \in {"/d/a"}, s \in StoreSizes : SRecordDeletion(p, s)
  \/ \E p \in {"/d/a"}, s \in StoreSizes : SCrashInSave(p, s)
  \/ SRestart
  \/ SGetStats
  \/ \E f \in StoreFiles : SStoreChanged(f)

SpecStore == InitStore /\ [][NextStore]_vars

\* The file holds a ledger record, whole and readable.
WellFormed(f) ==
  /\ f.exists
  /\ f.accessible
  /\ ~JsonRaises(f.text)
  /\ IsLedger(JsonLoad(f.text))

\* C3: whenever a record_deletion call has returned, loading the ledger
\* afresh from the file yields exactly the ledger in memory
\* (total_files_deleted, total_bytes_saved and the history).
C3_PersistedOnReturn ==
  (response.op = "record_deletion" /\ response.status = "returned")
    => load_stats(stats_file) = stats

\* C4: after a save that failed partway (a write error, or the process
\* dying in the save) the next load yields the counters of just before or
\* just after the interrupted record_deletion.
C4_CountersSurvive ==
  interrupted.flag
    => get_stats(load_stats(stats_file)) \in {interrupted.before, interrupted.after}

\* C5: load yields the persisted ledger when the file is well-formed and a
\* zero-valued ledger when it is missing or corrupt, unparsable or parsable
\* but no ledger record.
C5_LoadYieldsLedger ==
  response.op = "load"
    => /\ IsLedger(stats)
       /\ WellFormed(stats_file) => stats = JsonLoad(stats_file.text)
       /\ ~WellFormed(stats_file) =>
            /\ stats.total_files_deleted = 0
            /\ stats.total_bytes_saved = 0
            /\ stats.deletions = <<>>

----------------------------------------------------------------------------
(* The filesystem the scanner and the delete handler work on: a fixed set  *)
(* of paths, each with an entry. A listing gives a directory's entries in  *)
(* the order of Children.                                                  *)

Paths == {"/d", "/d/a", "/d/b", "/d/k", "/d/s", "/d/s/c", "/d/s/up", "/nx"}

Children(p) ==
  CASE p = "/d" -> <<"/d/a", "/d/b", "/d/k", "/d/s">>
    [] p = "/d/s" -> <<"/d/s/c", "/d/s/up">>
    [] OTHER -> <<>>

Parent(p) ==
  CASE p \in {"/d/a", "/d/b", "/d/k", "/d/s"} -> "/d"
    [] p \in {"/d/s/c", "/d/s/up"} -> "/d/s"
    [] OTHER -> "/"

NoEntry == [kind |-> "none", content |-> "", target |-> "", readable |-> TRUE, searchable |-> TRUE]
FileEntry(c, r) == [kind |-> "file", content |-> c, target |-> "", readable |-> r, searchable |-> TRUE]
DirEntry == [kind |-> "dir", content |-> "", target |-> "", readable |-> TRUE, searchable |-> TRUE]
\* A directory the process has no read permission on (--x): it cannot be
\* listed.
UnlistableDir == [kind |-> "dir", content |-> "", target |-> "", readable |-> FALSE, searchable |-> TRUE]
\* A directory the process has no search permission on (r--): it can be
\* listed, and stat of anything inside it raises PermissionError.
UnsearchableDir == [kind |-> "dir", content |-> "", target |-> "", readable |-> TRUE, searchable |-> FALSE]
LinkEntry(t) == [kind |-> "link", content |-> "", target |-> t, readable |-> TRUE, searchable |-> TRUE]

\* st_size of a regular file with this content
FileSize(c) == IF c = "x" THEN 2048 ELSE 3

\* hashlib.sha256(content).hexdigest(), by its first eight digits
Sha256(c) == IF c = "x" THEN "2d711642" ELSE "ef90d9c1"

None == "None"

\* The entry a path leads to once its symbolic links are followed; a chain
\* of more links than there are paths is a loop (ELOOP) and leads nowhere.
RECURSIVE Follow(_, _, _)
Follow(f, p, fuel) ==
  IF f[p].kind # "link" THEN p
  ELSE IF fuel = 0 THEN "/nx"
  ELSE Follow(f, f[p].target, fuel - 1)

Resolve(f, p) == Follow(f, p, Cardinality(Paths))

\* os.path.exists / Path.exists, Path.is_file, Path.is_dir follow links;
\* Path.is_symlink does not.
exists(f, p) == f[Resolve(f, p)].kind # "none"
is_file(f, p) == f[Resolve(f, p)].kind = "file"
is_dir(f, p) == f[Resolve(f, p)].kind = "dir"
is_symlink(f, p) == f[p].kind = "link"

\* stat(p) raises PermissionError: a directory above p cannot be searched
RECURSIVE StatDenied(_, _)
StatDenied(f, p) ==
  /\ Parent(p) \in Paths
  /\ \/ f[Parent(p)].kind = "dir" /\ ~f[Parent(p)].searchable
     \/ StatDenied(f, Parent(p))

\* os.path.exists: False on any OSError of stat
os_path_exists(f, p) == ~StatDenied(f, p) /\ exists(f, p)

\* os.path.getsize / stat().st_size of a path that leads to a regular file
getsize(f, p) == FileSize(f[Resolve(f, p)].content)

\* os.listdir / os.scandir of directory d raises PermissionError
ListRaisesPermissionError(f, d) == is_dir(f, d) /\ ~f[Resolve(f, d)].readable

\* Path.iterdir: the entries of a directory that can be listed
iterdir(f, d) == LET Present(c) == f[c].kind # "none" IN SelectSeq(Children(d), Present)

\* The directories rglob walks: d, then below each entry of d that is a
\* directory and no symbolic link; a directory that cannot be listed is
\* passed over without an error.
RECURSIVE RglobDirs(_, _)
RECURSIVE RglobBelow(_, _, _)
RglobDirs(f, d) == <<d>> \o RglobBelow(f, iterdir(f, d), 1)
RglobBelow(f, entries, i) ==
  IF i > Len(entries) THEN <<>>
  ELSE (IF is_dir(f, entries[i]) /\ ~is_symlink(f, entries[i])
           /\ ~ListRaisesPermissionError(f, entries[i])
        THEN RglobDirs(f, entries[i]) ELSE <<>>)
       \o RglobBelow(f, entries, i + 1)

RECURSIVE ListAll(_, _, _)
ListAll(f, dirs, i) ==
  IF i > Len(dirs) THEN <<>> ELSE iterdir(f, dirs[i]) \o ListAll(f, dirs, i + 1)

\* Path.rglob('*'): every entry of every directory walked
rglob(f, d) ==
  IF ListRaisesPermissionError(f, d) THEN <<>> ELSE ListAll(f, RglobDirs(f, d), 1)

----------------------------------------------------------------------------
(* FileScanner *)

\* A hash that lets the error of open() through to its caller.
compute_file_hash_Propagates(f, p) ==
  LET e == f[Resolve(f, p)]
  IN IF e.kind = "file" /\ e.readable THEN Sha256(e.content) ELSE "OSError"

\* FileScanner.compute_file_hash: None when the file cannot be opened
compute_file_hash(f, p) ==
  LET e == f[Resolve(f, p)]
  IN IF e.kind = "file" /\ e.readable THEN Sha256(e.content) ELSE None

\* Metadata that names a file by the path its links lead to.
get_file_metadata_Resolves(f, p) ==
  [file_path |-> Resolve(f, p), size_bytes |-> getsize(f, p), sha256_hash |-> compute_file_hash(f, p)]

\* FileScanner.get_file_metadata, the fields the catalog is read by
get_file_metadata(f, p) ==
  [file_path |-> p, size_bytes |-> getsize(f, p), sha256_hash |-> compute_file_hash(f, p)]

\* Lines 78-81: the paths the scan takes for files
file_paths(f, directory, recursive) ==
  LET IsFile(p) == is_file(f, p)
  IN SelectSeq(IF recursive THEN rglob(f, directory) ELSE iterdir(f, directory), IsFile)

RECURSIVE MetadataOf(_, _, _)
MetadataOf(f, paths, i) ==
  IF i > Len(paths) THEN <<>>
  ELSE <<get_file_metadata(f, paths[i])>> \o MetadataOf(f, paths, i + 1)

\* A root check that takes any path that exists.
ScanRaises_OnlyAbsent(f, directory) == ~exists(f, directory)

\* FileScanner.scan_directory raises ValueError
ScanRaises(f, directory) == ~exists(f, directory) \/ ~is_dir(f, directory)

\* Line 81 raises PermissionError: iterdir() of a root that cannot be listed
ListingRaises(f, directory, recursive) ==
  ~recursive /\ ListRaisesPermissionError(f, directory)

\* f.is_file() at line 79 or 81 raises PermissionError: the listing holds an
\* entry of a directory that cannot be searched
IsFileRaises(f, directory, recursive) ==
  LET entries == IF recursive THEN rglob(f, directory) ELSE iterdir(f, directory)
  IN \E i \in 1..Len(entries) : StatDenied(f, entries[i])

\* The message of the ValueError, by its text before the path
ScanError(f, directory) ==
  IF ~exists(f, directory) THEN "Directory does not exist" ELSE "Path is not a directory"

\* A scan that adds its records to those already stored.
scan_directory_Merges(f, directory, recursive) ==
  scan_results.files \o MetadataOf(f, file_paths(f, directory, recursive), 1)

\* FileScanner.scan_directory: self.files_info
scan_directory(f, directory, recursive) ==
  MetadataOf(f, file_paths(f, directory, recursive), 1)

\* Lines 94-100: the loop that fills hash_groups, from record i on
RECURSIVE HashGroups(_, _, _)
HashGroups(files_info, i, hash_groups) ==
  IF i > Len(files_info) THEN hash_groups
  ELSE LET file_info == files_info[i]
           file_hash == file_info.sha256_hash
       IN HashGroups(files_info, i + 1,
            IF file_hash = None THEN hash_groups
            ELSE IF file_hash \in DOMAIN hash_groups
                 THEN [hash_groups EXCEPT ![file_hash] = Append(@, file_info)]
                 ELSE hash_groups @@ (file_hash :> <<file_info>>))

\* A filter that lets the groups of one file through.
MoreThanOne_KeepsSingles(hash_groups) ==
  [h \in {g \in DOMAIN hash_groups : Len(hash_groups[g]) > 0} |-> hash_groups[h]]

\* Line 103: only the groups with more than one file
MoreThanOne(hash_groups) ==
  [h \in {g \in DOMAIN hash_groups : Len(hash_groups[g]) > 1} |-> hash_groups[h]]

\* FileScanner.group_by_hash
group_by_hash(files_info) == MoreThanOne(HashGroups(files_info, 1, <<>>))

----------------------------------------------------------------------------
(* Spec: the application (app.py), one request at a time: /api/scan,       *)
(* /api/delete and /api/stats on a filesystem nothing else changes. The    *)
(* application starts with no stats file or with one that holds {}; its    *)
(* saves succeed (SpecStore has the saves that fail).                      *)

\* The trees the application is started on.
ScanTreeOf(a, b, k, sd, c, up) ==
  [p \in Paths |->
     CASE p = "/d" -> DirEntry
       [] p = "/d/a" -> a
       [] p = "/d/b" -> b
       [] p = "/d/k" -> k
       [] p = "/d/s" -> sd
       [] p = "/d/s/c" -> c
       [] p = "/d/s/up" -> up
       [] OTHER -> NoEntry]

Trees ==
  { ScanTreeOf(t[1], t[2], t[3], t[4], t[5], t[6]) :
      t \in { u \in {FileEntry("x", TRUE), FileEntry("yy", TRUE)}
                    \X {NoEntry, FileEntry("x", TRUE), FileEntry("x", FALSE)}
                    \X {NoEntry, LinkEntry("/d/a"), LinkEntry("/nx")}
                    \X {NoEntry, DirEntry, UnlistableDir, UnsearchableDir}
                    \X {NoEntry, FileEntry("x", TRUE)}
                    \X {NoEntry, LinkEntry("/d")} :
                 /\ u[4] = NoEntry => (u[5] = NoEntry /\ u[6] = NoEntry)
                 /\ u[4] \in {UnlistableDir, UnsearchableDir}
                      => (u[5] = FileEntry("x", TRUE) /\ u[6] = NoEntry) } }

\* deletion_stats.json when the application starts
StartFiles == {NoFile, FileOf(JsonDump(Restrict(DefaultStats, {})))}

ScanInputs == {"/d", "/d/s", "/d/a", "/nx"}
DeleteInputs == Paths \cup {""}

\* scan_results as app.py creates it; .get('exact_duplicates', {}) is empty
\* until the first scan.
NoScanResults == [files |-> <<>>, exact_duplicates |-> <<>>]

Init ==
  /\ fs \in Trees
  /\ stats_file \in StartFiles
  /\ stats = load_stats(stats_file)
  /\ scan_results = NoScanResults
  /\ recorded = [n |-> 0, bytes |-> 0]
  /\ interrupted = NotInterrupted
  /\ response = NoResponse
  /\ before = [scan_results |-> scan_results, stats |-> stats]
  /\ pc = IdlePc
  /\ local = IdleLocal
  /\ shopping_list_table = IdleShoppingList
  /\ shop_history_table = IdleShopHistory

\* A scan that ends with the records of earlier scans thrown away.
ScanFailed_ClearsCatalog(directory, recursive, error) ==
  /\ response' = [Response("scan", directory, "400", NoStats)
                    EXCEPT !.recursive = recursive, !.error = error]
  /\ scan_results' = NoScanResults

\* Lines 157-161: the scanner raised; nothing was assigned to scan_results
ScanFailed(directory, recursive, error) ==
  /\ response' = [Response("scan", directory, "400", NoStats)
                    EXCEPT !.recursive = recursive, !.error = error]
  /\ UNCHANGED scan_results

\* /api/scan: scan_directory()
ScanDirectory(directory, recursive) ==
  /\ before' = [scan_results |-> scan_results, stats |-> stats]
  /\ IF ScanRaises(fs, directory)
     THEN ScanFailed(directory, recursive, ScanError(fs, directory))
     ELSE IF ListingRaises(fs, directory, recursive) \/ IsFileRaises(fs, directory, recursive)
     THEN ScanFailed(directory, recursive, "Permission denied")
     ELSE LET files == scan_directory(fs, directory, recursive)
              exact_duplicates == group_by_hash(files)
          IN /\ scan_results' = [files |-> files, exact_duplicates |-> exact_duplicates]
             /\ response' = [Response("scan", directory, "200", NoStats) EXCEPT !.recursive = recursive]
  /\ UNCHANGED <<stats, stats_file, recorded, interrupted, fs, pc, local, shopping_list_table, shop_history_table>>

\* /api/stats: get_deletion_stats()
GetDeletionStats ==
  /\ before' = [scan_results |-> scan_results, stats |-> stats]
  /\ response' = IF GetStatsRaises(stats)
                 THEN Response("stats", "", "500", NoStats)
                 ELSE Response("stats", "", "200", get_stats(stats))
  /\ UNCHANGED <<stats, stats_file, recorded, interrupted, fs, scan_results, pc, local, shopping_list_table, shop_history_table>>

\* How os.remove(file_path) can end: the entry is removed, or the call
\* raises PermissionError or another OSError; a directory is never removed
\* (IsADirectoryError, or PermissionError where unlink answers EPERM).
RemoveOutcomes(f, file_path) ==
  IF f[file_path].kind = "dir" THEN {"PermissionError", "OSError"}
  ELSE {"removed", "PermissionError", "OSError"}

\* A removal that takes the first record, whatever its path.
WithoutPath_DropsFirst(files, file_path) ==
  IF files = <<>> THEN files ELSE Tail(files)

\* Line 203: the records of another path
WithoutPath(files, file_path) ==
  LET Other(r) == r.file_path # file_path IN SelectSeq(files, Other)

\* An update that drops no group.
UpdatedDuplicates_KeepsAll(exact_duplicates, file_path) ==
  [h \in DOMAIN exact_duplicates |-> WithoutPath(exact_duplicates[h], file_path)]

\* Lines 206-212: every group without the path, groups of fewer than two dropped
UpdatedDuplicates(exact_duplicates, file_path) ==
  [h \in {g \in DOMAIN exact_duplicates :
            ~(Len(WithoutPath(exact_duplicates[g], file_path)) < 2)}
     |-> WithoutPath(exact_duplicates[h], file_path)]

\* A removal that takes the record out of the files and leaves the groups.
CatalogWithout_StaleGroups(results, file_path) ==
  [files |-> WithoutPath(results.files, file_path),
   exact_duplicates |-> results.exact_duplicates]

\* Lines 202-212: the stored files and the stored groups without the path
CatalogWithout(results, file_path) ==
  [files |-> WithoutPath(results.files, file_path),
   exact_duplicates |-> UpdatedDuplicates(results.exact_duplicates, file_path)]

\* Lines 199-221 of delete_file, once os.remove has removed the file
AfterRemove(file_path, file_size) ==
  /\ stats' = RecordStats(stats, file_path, file_size)
  /\ IF RecordRaises(stats)
     THEN /\ response' = Response("delete", file_path, "500", NoStats)
          /\ UNCHANGED <<stats_file, scan_results, recorded>>
     ELSE /\ stats_file' = save_stats(stats_file, stats', "ok", 0)
          /\ recorded' = [n |-> recorded.n + 1, bytes |-> recorded.bytes + file_size]
          /\ scan_results' = CatalogWithout(scan_results, file_path)
          /\ response' = IF GetStatsRaises(stats')
                         THEN Response("delete", file_path, "500", NoStats)
                         ELSE Response("delete", file_path, "200", get_stats(stats'))

\* A request that ends on the record of another file being dropped as well.
Refused_DropsRecord(file_path, status) ==
  /\ response' = Response("delete", file_path, status, NoStats)
  /\ scan_results' = [scan_results EXCEPT !.files = WithoutPath(@, file_path)]
  /\ UNCHANGED <<stats, stats_file, recorded, fs, shopping_list_table, shop_history_table>>

\* Lines 179-191 and 223-232: the request ends before anything was removed
Refused(file_path, status) ==
  /\ response' = Response("delete", file_path, status, NoStats)
  /\ UNCHANGED <<stats, stats_file, recorded, fs, scan_results, shopping_list_table, shop_history_table>>

\* /api/delete: delete_file()
DeleteFile(file_path) ==
  /\ before' = [scan_results |-> scan_results, stats |-> stats]
  /\ IF file_path = "" THEN Refused(file_path, "400")
     ELSE IF ~os_path_exists(fs, file_path) THEN Refused(file_path, "404")
     ELSE \E o \in RemoveOutcomes(fs, file_path) :
            IF o = "removed"
            THEN /\ recorded.n < MaxDeletes
                 /\ fs' = [fs EXCEPT ![file_path] = NoEntry]
                 /\ AfterRemove(file_path, getsize(fs, file_path))
            ELSE Refused(file_path, IF o = "PermissionError" THEN "403" ELSE "500")
  /\ UNCHANGED <<interrupted, pc, local, shopping_list_table, shop_history_table>>

Next ==
  \/ \E directory \in ScanInputs, recursive \in BOOLEAN : ScanDirectory(directory, recursive)
  \/ \E file_path \in DeleteInputs : DeleteFile(file_path)
  \/ GetDeletionStats

Spec == Init /\ [][Next]_vars

----------------------------------------------------------------------------
(* Properties of the application *)

Hashes == {Sha256("x"), Sha256("yy")}

Positions(files, h) == {i \in 1..Len(files) : files[i].sha256_hash = h}

WithHash(files, h) == LET Carries(r) == r.sha256_hash = h IN SelectSeq(files, Carries)

PathsOf(files) == {files[i].file_path : i \in 1..Len(files)}

\* C6: deleting the same existing file twice: the first delete succeeds and
\* adds exactly the file's size to total_bytes_saved and 1 to
\* total_files_deleted; the second fails with 404 (not found) and leaves the
\* ledger, counters and history, unchanged.
C6_DeleteTwice ==
  [][\A p \in DeleteInputs \ {""} :
       /\ (DeleteFile(p) /\ fs[p].kind # "none" /\ fs'[p].kind = "none")
            => /\ response'.status = "200"
               /\ stats'.total_bytes_saved = stats.total_bytes_saved + getsize(fs, p)
               /\ stats'.total_files_deleted = stats.total_files_deleted + 1
               /\ response'.stats = get_stats(stats')
       /\ (response.op = "delete" /\ response.status = "200" /\ response.path = p /\ DeleteFile(p))
            => /\ response'.status = "404"
               /\ stats' = stats
               /\ stats_file' = stats_file]_vars

\* C7: whenever delete fails because the physical delete is refused (the
\* file is gone, permission is denied, or os.remove raises anything else),
\* the failure is surfaced and the catalog (file records and duplicate
\* groups) and the ledger are as they were before the call.
C7_RefusedDeleteChangesNothing ==
  [][\A p \in DeleteInputs \ {""} :
       (DeleteFile(p) /\ fs' = fs)
         => /\ response'.status \in {"403", "404", "500"}
            /\ scan_results' = scan_results
            /\ stats' = stats
            /\ stats_file' = stats_file]_vars

\* A delete was refused with a catalog and a ledger that are not empty.
C7_Witness ==
  /\ response.op = "delete"
  /\ response.status = "403"
  /\ PathsOf(scan_results.files) # {}
  /\ response.path \in PathsOf(scan_results.files)
  /\ DOMAIN scan_results.exact_duplicates # {}
  /\ stats.total_files_deleted > 0
  /\ scan_results = before.scan_results
  /\ stats = before.stats

\* C8: no exact-duplicate group ever has fewer than 2 members, in the result
\* of group_by_hash and in the stored groups after any scans and deletes.
C8_GroupsOfTwoOrMore ==
  \A h \in DOMAIN scan_results.exact_duplicates :
    Len(scan_results.exact_duplicates[h]) >= 2

\* A delete took a group below two members and the group is gone.
C8_Witness ==
  /\ response.op = "delete"
  /\ response.status = "200"
  /\ \E h \in DOMAIN before.scan_results.exact_duplicates :
       /\ h \notin DOMAIN scan_results.exact_duplicates
       /\ Positions(scan_results.files, h) # {}

\* C9: group_by_hash returns a group for fingerprint h exactly when at least
\* 2 records carry h; the group holds exactly those records in discovery
\* order; a record with no fingerprint is in no group.
C9_GroupByHash ==
  (response.op = "scan" /\ response.status = "200")
    => LET files == scan_results.files
           groups == scan_results.exact_duplicates
       IN /\ DOMAIN groups \subseteq Hashes
          /\ \A h \in Hashes \cup {None} :
               h \in DOMAIN groups <=> (h # None /\ Cardinality(Positions(files, h)) >= 2)
          /\ \A h \in DOMAIN groups : groups[h] = WithHash(files, h)
          /\ \A h \in DOMAIN groups : \A i \in 1..Len(groups[h]) :
               groups[h][i].sha256_hash # None

\* A scan found one pair of duplicates, a file like no other and a file
\* without a fingerprint.
C9_Witness ==
  /\ response.op = "scan"
  /\ response.status = "200"
  /\ Cardinality(DOMAIN scan_results.exact_duplicates) = 1
  /\ \E h \in DOMAIN scan_results.exact_duplicates :
       Len(scan_results.exact_duplicates[h]) = 2
  /\ \E h \in Hashes : Cardinality(Positions(scan_results.files, h)) = 1
  /\ Positions(scan_results.files, None) # {}

\* The regular files reachable from directory d through directories that
\* are no symbolic links.
RECURSIVE Below(_, _, _)
Below(f, p, d) ==
  /\ Parent(p) \in Paths
  /\ f[Parent(p)].kind = "dir"
  /\ (Parent(p) = d \/ Below(f, Parent(p), d))

RegularFilesBelow(f, d) == {p \in Paths : f[p].kind = "file" /\ Below(f, p, d)}

\* C10: the entries a recursive scan of D produces are exactly the regular
\* files reachable from D through non-symlink directory edges: no directory
\* and no symbolic link is yielded as a file.
C10_ScanYieldsRegularFiles ==
  (response.op = "scan" /\ response.status = "200" /\ response.recursive)
    => PathsOf(scan_results.files) = RegularFilesBelow(fs, response.path)

----------------------------------------------------------------------------
(* SpecConc: two /api/delete requests served at once. app.run() serves     *)
(* each request on a thread of its own and delete_file takes no lock, so   *)
(* the statements of the two requests interleave. A statement that reads   *)
(* shared state and writes it back (x += 1, a comprehension assigned to    *)
(* the name it read) is a load and a store, and the other thread can run   *)
(* between the two. The file object of save_stats buffers what json.dump   *)
(* writes until close().                                                   *)

Threads == {"t1", "t2"}

ConcTree ==
  [p \in Paths |->
     IF p \in {"/d/a", "/d/b"} THEN FileEntry("x", TRUE)
     ELSE IF p = "/d" THEN DirEntry ELSE NoEntry]

NoLocal(file_path) ==
  [file_path |-> file_path, file_size |-> 0, tmp |-> 0, text |-> <<>>,
   files |-> <<>>, groups |-> <<>>, status |-> "none"]

InitConc ==
  /\ fs = ConcTree
  /\ stats_file = NoFile
  /\ stats = load_stats(stats_file)
  /\ scan_results = [files |-> scan_directory(fs, "/d", TRUE),
                     exact_duplicates |-> group_by_hash(scan_directory(fs, "/d", TRUE))]
  /\ recorded = [n |-> 0, bytes |-> 0]
  /\ interrupted = NotInterrupted
  /\ response = NoResponse
  /\ before = IdleBefore
  /\ pc = [t \in Threads |-> "exists"]
  /\ local \in {l \in [Threads -> {NoLocal("/d/a"), NoLocal("/d/b")}] : l["t1"].file_path = "/d/a"}
  /\ shopping_list_table = IdleShoppingList
  /\ shop_history_table = IdleShopHistory

\* Thread t moves to `to` with its locals changed to l.
Goto(t, to, l) ==
  /\ pc' = [pc EXCEPT ![t] = to]
  /\ local' = [local EXCEPT ![t] = l]

\* The request of t ends with this status.
Finish(t, status) ==
  /\ Goto(t, "done", [local[t] EXCEPT !.status = status])
  /\ response' = Response("delete", local[t].file_path, status, NoStats)

\* Line 187: os.path.exists(file_path)
TExists(t) ==
  /\ pc[t] = "exists"
  /\ IF os_path_exists(fs, local[t].file_path)
     THEN Goto(t, "getsize", local[t]) /\ UNCHANGED response
     ELSE Finish(t, "404")
  /\ UNCHANGED <<stats, stats_file, recorded, interrupted, fs, scan_results, before, shopping_list_table, shop_history_table>>

\* Line 194: os.path.getsize(file_path); FileNotFoundError ends in 500
TGetsize(t) ==
  /\ pc[t] = "getsize"
  /\ IF exists(fs, local[t].file_path)
     THEN Goto(t, "remove", [local[t] EXCEPT !.file_size = getsize(fs, local[t].file_path)])
          /\ UNCHANGED response
     ELSE Finish(t, "500")
  /\ UNCHANGED <<stats, stats_file, recorded, interrupted, fs, scan_results, before, shopping_list_table, shop_history_table>>

\* Line 197: os.remove(file_path); FileNotFoundError ends in 500
TRemove(t) ==
  /\ pc[t] = "remove"
  /\ IF fs[local[t].file_path].kind # "none"
     THEN /\ fs' = [fs EXCEPT ![local[t].file_path] = NoEntry]
          /\ Goto(t, "load45", local[t])
          /\ UNCHANGED response
     ELSE Finish(t, "500") /\ UNCHANGED fs
  /\ UNCHANGED <<stats, stats_file, recorded, interrupted, scan_results, before, shopping_list_table, shop_history_table>>

\* Line 45, the read of self.stats['total_files_deleted']
TLoad45(t) ==
  /\ pc[t] = "load45"
  /\ Goto(t, "store45", [local[t] EXCEPT !.tmp = stats.total_files_deleted])
  /\ UNCHANGED <<stats, stats_file, recorded, interrupted, response, fs, scan_results, before, shopping_list_table, shop_history_table>>

\* Line 45, the write of the value read plus 1
TStore45(t) ==
  /\ pc[t] = "store45"
  /\ stats' = [stats EXCEPT !.total_files_deleted = local[t].tmp + 1]
  /\ Goto(t, "load46", local[t])
  /\ UNCHANGED <<stats_file, recorded, interrupted, response, fs, scan_results, before, shopping_list_table, shop_history_table>>

\* Line 46, the read of self.stats['total_bytes_saved']
TLoad46(t) ==
  /\ pc[t] = "load46"
  /\ Goto(t, "store46", [local[t] EXCEPT !.tmp = stats.total_bytes_saved])
  /\ UNCHANGED <<stats, stats_file, recorded, interrupted, response, fs, scan_results, before, shopping_list_table, shop_history_table>>

\* Line 46, the write of the value read plus file_size
TStore46(t) ==
  /\ pc[t] = "store46"
  /\ stats' = [stats EXCEPT !.total_bytes_saved = local[t].tmp + local[t].file_size]
  /\ Goto(t, "append", local[t])
  /\ UNCHANGED <<stats_file, recorded, interrupted, response, fs, scan_results, before, shopping_list_table, shop_history_table>>

\* Lines 47-58: last_updated, the append to the history and its truncation
TAppend(t) ==
  /\ pc[t] = "append"
  /\ stats' = After57(After50(After47(stats), local[t].file_path, local[t].file_size))
  /\ Goto(t, "open", local[t])
  /\ UNCHANGED <<stats_file, recorded, interrupted, response, fs, scan_results, before, shopping_list_table, shop_history_table>>

\* Line 38: open(self.stats_file, 'w') truncates the file
TSaveOpen(t) ==
  /\ pc[t] = "open"
  /\ stats_file' = FileOf(<<>>)
  /\ Goto(t, "dump", local[t])
  /\ UNCHANGED <<stats, recorded, interrupted, response, fs, scan_results, before, shopping_list_table, shop_history_table>>

\* Line 39: json.dump(self.stats, f) fills the buffer of f
TSaveDump(t) ==
  /\ pc[t] = "dump"
  /\ Goto(t, "close", [local[t] EXCEPT !.text = JsonDump(stats)])
  /\ UNCHANGED <<stats, stats_file, recorded, interrupted, response, fs, scan_results, before, shopping_list_table, shop_history_table>>

\* What a file holds once `text` was written at its start.
Overwrite(old, text) ==
  IF Len(old) <= Len(text) THEN text ELSE text \o SubSeq(old, Len(text) + 1, Len(old))

\* Line 38, leaving the with block: close() writes the buffer from offset 0;
\* record_deletion returns.
TSaveClose(t) ==
  /\ pc[t] = "close"
  /\ stats_file' = FileOf(Overwrite(stats_file.text, local[t].text))
  /\ recorded' = [n |-> recorded.n + 1, bytes |-> recorded.bytes + local[t].file_size]
  /\ Goto(t, "load203", local[t])
  /\ UNCHANGED <<stats, interrupted, response, fs, scan_results, before, shopping_list_table, shop_history_table>>

\* Line 203, the comprehension over scan_results['files']
TLoad203(t) ==
  /\ pc[t] = "load203"
  /\ Goto(t, "store203", [local[t] EXCEPT !.files = WithoutPath(scan_results.files, local[t].file_path)])
  /\ UNCHANGED <<stats, stats_file, recorded, interrupted, response, fs, scan_results, before, shopping_list_table, shop_history_table>>

\* Line 203, the assignment to scan_results['files']
TStore203(t) ==
  /\ pc[t] = "store203"
  /\ scan_results' = [scan_results EXCEPT !.files = local[t].files]
  /\ Goto(t, "load206", local[t])
  /\ UNCHANGED <<stats, stats_file, recorded, interrupted, response, fs, before, shopping_list_table, shop_history_table>>

\* Line 206: list(scan_results.get('exact_duplicates', {}).items())
TLoad206(t) ==
  /\ pc[t] = "load206"
  /\ Goto(t, "store206", [local[t] EXCEPT !.groups = scan_results.exact_duplicates])
  /\ UNCHANGED <<stats, stats_file, recorded, interrupted, response, fs, scan_results, before, shopping_list_table, shop_history_table>>

\* Lines 207-212 for the items read: a group of fewer than two is deleted
\* (KeyError, so 500, when the other request deleted it first), another set.
TStore206(t) ==
  /\ pc[t] = "store206"
  /\ LET items == local[t].groups
         kept == UpdatedDuplicates(items, local[t].file_path)
         dropped == DOMAIN items \ DOMAIN kept
     IN IF dropped \subseteq DOMAIN scan_results.exact_duplicates
        THEN /\ scan_results' =
                  [scan_results EXCEPT !.exact_duplicates =
                     [h \in (DOMAIN @ \ dropped) \cup DOMAIN kept |->
                        IF h \in DOMAIN kept THEN kept[h] ELSE @[h]]]
             /\ Goto(t, "respond", local[t])
             /\ UNCHANGED response
        ELSE Finish(t, "500") /\ UNCHANGED scan_results
  /\ UNCHANGED <<stats, stats_file, recorded, interrupted, fs, before, shopping_list_table, shop_history_table>>

\* Lines 215-221: get_stats() and the answer
TRespond(t) ==
  /\ pc[t] = "respond"
  /\ Goto(t, "done", [local[t] EXCEPT !.status = "200"])
  /\ response' = Response("delete", local[t].file_path, "200", get_stats(stats))
  /\ UNCHANGED <<stats, stats_file, recorded, interrupted, fs, scan_results, before, shopping_list_table, shop_history_table>>

NextConc ==
  \E t \in Threads :
    \/ TExists(t)
    \/ TGetsize(t)
    \/ TRemove(t)
    \/ TLoad45(t)
    \/ TStore45(t)
    \/ TLoad46(t)
    \/ TStore46(t)
    \/ TAppend(t)
    \/ TSaveOpen(t)
    \/ TSaveDump(t)
    \/ TSaveClose(t)
    \/ TLoad203(t)
    \/ TStore203(t)
    \/ TLoad206(t)
    \/ TStore206(t)
    \/ TRespond(t)

SpecConc == InitConc /\ [][NextConc]_vars

\* C2: concurrent delete requests lose no update: once all have returned,
\* total_files_deleted has grown by the number of record_deletion calls and
\* total_bytes_saved by the sum of their sizes, in memory and in the
\* persisted ledger.
C2_NoLostUpdate ==
  (\A t \in Threads : pc[t] = "done")
    => /\ stats.total_files_deleted = recorded.n
       /\ stats.total_bytes_saved = recorded.bytes
       /\ load_stats(stats_file).total_files_deleted = recorded.n
       /\ load_stats(stats_file).total_bytes_saved = recorded.bytes

----------------------------------------------------------------------------
(* The filesystem DirectoryAnalyzer works on: entries with a size and, for *)
(* a directory, the permissions the process has on it: r to list it, x to  *)
(* reach what is inside ("rwx", "r--", "--x", "---").                      *)

APaths ==
  {"/h", "/h/f", "/h/l", "/h/CloudStorage", "/h/CloudStorage/g", "/h/p", "/h/p/f",
   "/h/p/Mobile Documents", "/h/p/Mobile Documents/m", "/h/q", "/h/q/f", "/h/z", "/nx"}

\* os.listdir order
AChildren(p) ==
  CASE p = "/h" -> <<"/h/f", "/h/l", "/h/CloudStorage", "/h/p", "/h/q", "/h/z">>
    [] p = "/h/CloudStorage" -> <<"/h/CloudStorage/g">>
    [] p = "/h/p" -> <<"/h/p/f", "/h/p/Mobile Documents">>
    [] p = "/h/p/Mobile Documents" -> <<"/h/p/Mobile Documents/m">>
    [] p = "/h/q" -> <<"/h/q/f">>
    [] OTHER -> <<>>

AParent(p) ==
  IF \E d \in APaths : \E i \in 1..Len(AChildren(d)) : AChildren(d)[i] = p
  THEN CHOOSE d \in APaths : \E i \in 1..Len(AChildren(d)) : AChildren(d)[i] = p
  ELSE "/"

\* Path.name
Name(p) ==
  CASE p \in {"/h/CloudStorage"} -> "CloudStorage"
    [] p \in {"/h/p/Mobile Documents"} -> "Mobile Documents"
    [] p \in {"/h/f", "/h/p/f", "/h/q/f"} -> "f"
    [] p = "/h/CloudStorage/g" -> "g"
    [] p = "/h/p/Mobile Documents/m" -> "m"
    [] p = "/h/l" -> "l"
    [] p = "/h/p" -> "p"
    [] p = "/h/q" -> "q"
    [] p = "/h/z" -> "z"
    [] p = "/h" -> "h"
    [] OTHER -> "nx"

\* A denylist without 'Mobile Documents'.
MountNames_OnlyCloudStorage == {"CloudStorage"}

\* Lines 28 and 59: the names that are never descended into
MountNames == {"CloudStorage", "Mobile Documents"}

ANone == [kind |-> "none", size |-> 0, mode |-> "rwx", target |-> ""]
AFile(n) == [kind |-> "file", size |-> n, mode |-> "rwx", target |-> ""]
ADir(m) == [kind |-> "dir", size |-> 0, mode |-> m, target |-> ""]
ALink(t) == [kind |-> "link", size |-> 0, mode |-> "rwx", target |-> t]
\* An entry the listing of its directory names but that is gone when it is
\* stat'ed (FileNotFoundError).
AVanished == [kind |-> "vanished", size |-> 0, mode |-> "rwx", target |-> ""]
\* An entry whose path is longer than the system takes (PATH_MAX): lstat of
\* it raises OSError, ENAMETOOLONG.
ATooLong == [kind |-> "toolong", size |-> 0, mode |-> "rwx", target |-> ""]

CanRead(m) == m \in {"rwx", "r--"}
CanSearch(m) == m \in {"rwx", "--x"}

\* stat/lstat of p raises PermissionError: a directory above p cannot be
\* searched.
RECURSIVE StatRaises(_, _)
StatRaises(f, p) ==
  /\ AParent(p) \in APaths
  /\ \/ f[AParent(p)].kind = "dir" /\ ~CanSearch(f[AParent(p)].mode)
     \/ StatRaises(f, AParent(p))

\* os.listdir(d) raises PermissionError
ListRaises(f, d) == StatRaises(f, d) \/ (f[d].kind = "dir" /\ ~CanRead(f[d].mode))

\* Path.iterdir of a directory that can be listed
a_iterdir(f, d) == LET Present(c) == f[c].kind # "none" IN SelectSeq(AChildren(d), Present)

\* DirectoryAnalyzer.get_directory_size(path) for a path that is no regular
\* file; EntriesSize is the loop of lines 16-30 from entry i on, left by the
\* first PermissionError (line 31) with what was added up so far.
RECURSIVE get_directory_size(_, _)
RECURSIVE EntriesSize(_, _, _, _)
get_directory_size(f, path) ==
  IF f[path].kind = "none" \/ ListRaises(f, path) THEN 0
  ELSE EntriesSize(f, a_iterdir(f, path), 1, 0)
EntriesSize(f, entries, i, total_size) ==
  IF i > Len(entries) THEN total_size
  ELSE LET entry == entries[i]
       IN IF StatRaises(f, entry) THEN total_size
          ELSE IF f[entry].kind = "link" THEN EntriesSize(f, entries, i + 1, total_size)
          ELSE IF f[entry].kind = "file"
               THEN EntriesSize(f, entries, i + 1, total_size + f[entry].size)
          ELSE IF f[entry].kind = "dir"
               THEN IF Name(entry) \in MountNames
                    THEN EntriesSize(f, entries, i + 1, total_size)
                    ELSE EntriesSize(f, entries, i + 1,
                                     total_size + get_directory_size(f, entry))
          ELSE EntriesSize(f, entries, i + 1, total_size)

\* path.iterdir() at line 16 raises NotADirectoryError, which nothing catches
DirectorySizeRaises(f, path) == ~StatRaises(f, path) /\ f[path].kind = "file"

\* get_directory_size(path) raises OSError: is_symlink() at line 18 raised
\* one that is neither PermissionError nor FileNotFoundError, in this loop
\* or in one below it, and lines 24 and 31 let it through.
RECURSIVE SizeRaisesOSError(_, _)
RECURSIVE EntriesRaiseOSError(_, _, _)
SizeRaisesOSError(f, path) ==
  /\ f[path].kind = "dir"
  /\ ~ListRaises(f, path)
  /\ EntriesRaiseOSError(f, a_iterdir(f, path), 1)
EntriesRaiseOSError(f, entries, i) ==
  /\ i <= Len(entries)
  /\ ~StatRaises(f, entries[i])
  /\ \/ f[entries[i]].kind = "toolong"
     \/ /\ f[entries[i]].kind = "dir"
        /\ Name(entries[i]) \notin MountNames
        /\ SizeRaisesOSError(f, entries[i])
     \/ EntriesRaiseOSError(f, entries, i + 1)

\* One element of subdirs
Subdir(name, path, size_bytes) == [name |-> name, path |-> path, size_bytes |-> size_bytes]

RECURSIVE Subdirs(_, _, _)
\* A listing that gives a denylisted directory the size of what it holds.
RECURSIVE Subdirs_MeasuresMounts(_, _, _)
Subdirs_MeasuresMounts(f, entries, i) ==
  IF i > Len(entries) THEN <<>>
  ELSE LET entry == entries[i]
       IN (IF f[entry].kind = "dir"
           THEN <<Subdir(Name(entry), entry, EntriesSize(f, a_iterdir(f, entry), 1, 0))>>
           ELSE <<>>)
          \o Subdirs_MeasuresMounts(f, entries, i + 1)

\* Lines 52-75 from entry i on: the subdirs appended
Subdirs(f, entries, i) ==
  IF i > Len(entries) THEN <<>>
  ELSE LET entry == entries[i]
       IN (IF f[entry].kind = "dir"
           THEN IF Name(entry) \in MountNames
                THEN <<Subdir(Name(entry) \o " (cloud/skipped)", entry, 0)>>
                ELSE <<Subdir(Name(entry), entry, get_directory_size(f, entry))>>
           ELSE <<>>)
          \o Subdirs(f, entries, i + 1)

\* list.sort(key=size_bytes, reverse=True): stable, largest first
RECURSIVE SortBySize(_)
\* An insertion that puts a record before those of its own size.
Insert_BeforeEquals(sorted, r) ==
  LET k == Cardinality({j \in 1..Len(sorted) : sorted[j].size_bytes > r.size_bytes})
  IN SubSeq(sorted, 1, k) \o <<r>> \o SubSeq(sorted, k + 1, Len(sorted))

Insert(sorted, r) ==
  LET k == Cardinality({j \in 1..Len(sorted) : sorted[j].size_bytes >= r.size_bytes})
  IN SubSeq(sorted, 1, k) \o <<r>> \o SubSeq(sorted, k + 1, Len(sorted))
SortBySize(subdirs) ==
  IF subdirs = <<>> THEN <<>>
  ELSE Insert(SortBySize(SubSeq(subdirs, 1, Len(subdirs) - 1)), subdirs[Len(subdirs)])

\* An analysis that takes a root it cannot read for one without
\* subdirectories.
AnalyzeOutcome_Swallows(f, directory) ==
  IF StatRaises(f, directory) THEN "PermissionError"
  ELSE IF f[directory].kind \notin {"dir"} THEN "ValueError"
  ELSE "returned"

\* How analyze_subdirectories ends: "returned", or the exception it raises
AnalyzeOutcome(f, directory) ==
  IF StatRaises(f, directory) THEN "PermissionError"
  ELSE IF f[directory].kind \notin {"dir"} THEN "ValueError"
  ELSE IF ListRaises(f, directory) THEN "PermissionError"
  ELSE IF a_iterdir(f, directory) # <<>> /\ StatRaises(f, a_iterdir(f, directory)[1])
       THEN "PermissionError"
  ELSE "returned"

\* DirectoryAnalyzer.analyze_subdirectories when it returns
analyze_subdirectories(f, directory) ==
  SortBySize(Subdirs(f, a_iterdir(f, directory), 1))

\* How get_summary ends
SummaryOutcome(f, directory) ==
  IF DirectorySizeRaises(f, directory) THEN "NotADirectoryError"
  ELSE IF SizeRaisesOSError(f, directory) THEN "OSError"
  ELSE AnalyzeOutcome(f, directory)

\* DirectoryAnalyzer.get_summary when it returns
get_summary(f, directory) ==
  [directory |-> directory,
   total_size_bytes |-> get_directory_size(f, directory),
   subdirectory_count |-> Len(analyze_subdirectories(f, directory)),
   subdirectories |-> analyze_subdirectories(f, directory)]

----------------------------------------------------------------------------
(* SpecAnalyze: get_summary() of a DirectoryAnalyzer, as the module's      *)
(* __main__ and /api/analyze-sizes call it, on a tree nothing changes.     *)

\* The tree with these entries; what lies in a directory that is absent
\* (or is a regular file) is absent.
TreeOf(h, f, l, c, p, pf, md, q, qf) ==
  [x \in APaths |->
     CASE x = "/h" -> h
       [] x = "/h/f" -> f
       [] x = "/h/l" -> l
       [] x = "/h/CloudStorage" -> c
       [] x = "/h/CloudStorage/g" -> IF c.kind = "dir" THEN AFile(2) ELSE ANone
       [] x = "/h/p" -> p
       [] x = "/h/p/f" -> IF p.kind = "dir" THEN pf ELSE ANone
       [] x = "/h/p/Mobile Documents" -> IF p.kind = "dir" THEN md ELSE ANone
       [] x = "/h/p/Mobile Documents/m" ->
            IF p.kind = "dir" /\ md.kind = "dir" THEN AFile(8) ELSE ANone
       [] x = "/h/q" -> q
       [] x = "/h/q/f" -> IF q.kind = "dir" THEN qf ELSE ANone
       [] x = "/h/z" -> AFile(16)
       [] OTHER -> ANone]

DirModes == {ADir("rwx"), ADir("r--"), ADir("--x"), ADir("---")}

AnalyzeTrees ==
  { TreeOf(h, f, l, c, p, pf, md, q, qf) :
      h \in DirModes,
      f \in {ANone, AFile(1), AVanished},
      l \in {ANone, ALink("/h/f"), ALink("/h/p")},
      c \in {ANone, AFile(32), ADir("rwx")},
      p \in {ANone} \cup DirModes,
      pf \in {ANone, AFile(4)},
      md \in {ANone, ADir("rwx")},
      q \in {ANone, ADir("rwx")},
      qf \in {ANone, AFile(4), AFile(5), ATooLong} }

AnalyzeInputs == {"/h", "/h/p", "/h/q", "/h/f", "/nx"}

InitAnalyze ==
  /\ fs \in AnalyzeTrees
  /\ stats_file = NoFile
  /\ stats = load_stats(stats_file)
  /\ recorded = [n |-> 0, bytes |-> 0]
  /\ interrupted = NotInterrupted
  /\ response = NoResponse
  /\ scan_results = IdleScanResults
  /\ before = IdleBefore
  /\ pc = IdlePc
  /\ local = IdleLocal
  /\ shopping_list_table = IdleShoppingList
  /\ shop_history_table = IdleShopHistory

\* analyzer = DirectoryAnalyzer(directory); analyzer.get_summary()
GetSummary(directory) ==
  /\ response' = IF SummaryOutcome(fs, directory) = "returned"
                 THEN Response("get_summary", directory, "returned", get_summary(fs, directory))
                 ELSE Response("get_summary", directory, SummaryOutcome(fs, directory), NoStats)
  /\ UNCHANGED <<stats, stats_file, recorded, interrupted, fs, scan_results, before, pc, local, shopping_list_table, shop_history_table>>

NextAnalyze == \E directory \in AnalyzeInputs : GetSummary(directory)

SpecAnalyze == InitAnalyze /\ [][NextAnalyze]_vars

----------------------------------------------------------------------------
(* Properties of the directory summary *)

RECURSIVE SumOver(_, _)
SumOver(f, S) ==
  IF S = {} THEN 0
  ELSE LET p == CHOOSE q \in S : TRUE IN f[p].size + SumOver(f, S \ {p})

\* Directory q is gone through on the way down: it can be listed and
\* searched.
Passable(f, q) == f[q].kind = "dir" /\ f[q].mode = "rwx"

\* p lies below d, and every directory between d and p is no symbolic link,
\* has no denylisted name and can be read; so can d.
RECURSIVE ReachableFrom(_, _, _)
ReachableFrom(f, p, d) ==
  /\ AParent(p) \in APaths
  /\ Passable(f, AParent(p))
  /\ \/ AParent(p) = d
     \/ /\ Name(AParent(p)) \notin {"CloudStorage", "Mobile Documents"}
        /\ ReachableFrom(f, AParent(p), d)

ReachableFiles(f, d) == {p \in APaths : f[p].kind = "file" /\ ReachableFrom(f, p, d)}

\* C11: the total_size_bytes of a summary of D is the sum of the sizes of
\* the regular files reachable from D through directories that can be read,
\* where every symbolic-link entry and every directory with a denylisted
\* name, at any depth below D, is skipped and contributes 0.
C11_TotalSize ==
  (response.op = "get_summary" /\ response.status = "returned")
    => response.stats.total_size_bytes = SumOver(fs, ReachableFiles(fs, response.path))

\* A summary of a tree with a symbolic link, a denylisted directory right
\* below the root and another one level down, each next to counted files.
C11_Witness ==
  /\ response.op = "get_summary"
  /\ response.status = "returned"
  /\ response.path = "/h"
  /\ fs["/h/l"].kind = "link"
  /\ fs["/h/CloudStorage/g"].kind = "file"
  /\ fs["/h/p/Mobile Documents/m"].kind = "file"
  /\ fs["/h/p"].mode = "rwx"
  /\ fs["/h/p/f"].kind = "file"
  /\ fs["/h/q/f"].kind = "file"
  /\ response.stats.total_size_bytes = 1 + 4 + fs["/h/q/f"].size + 16

----------------------------------------------------------------------------
(* Properties of scans *)

\* C12: a scan of a root that is absent fails with "does not exist" and a
\* scan of a root that is a regular file fails with "not a directory"; in
\* both cases no record was produced: the stored records and groups are
\* those of before the call.
C12_ScanRootErrors ==
  response.op = "scan"
    => /\ ~exists(fs, response.path)
            => /\ response.status = "400"
               /\ response.error = "Directory does not exist"
               /\ scan_results = before.scan_results
       /\ is_file(fs, response.path)
            => /\ response.status = "400"
               /\ response.error = "Path is not a directory"
               /\ scan_results = before.scan_results

\* A scan of a regular file was refused while the catalog held records.
C12_Witness ==
  /\ response.op = "scan"
  /\ is_file(fs, response.path)
  /\ response.error = "Path is not a directory"
  /\ scan_results.files # <<>>

\* C13: a scan that fails before it completes commits nothing: the stored
\* file records and duplicate groups are those of before the call, the
\* snapshot the last completed scan (and the deletes since) left.
C13_FailedScanNotCommitted ==
  (response.op = "scan" /\ response.status # "200")
    => scan_results = before.scan_results

\* A scan failed on listing its root, after the root checks had passed,
\* while the catalog held records and a duplicate group.
C13_Witness ==
  /\ response.op = "scan"
  /\ response.status = "400"
  /\ response.error = "Permission denied"
  /\ scan_results.files # <<>>
  /\ DOMAIN scan_results.exact_duplicates # {}

\* Path p lies below directory d.
RECURSIVE Under(_, _)
Under(p, d) == Parent(p) \in Paths /\ (Parent(p) = d \/ Under(Parent(p), d))

\* C14: after a scan completes, the stored file records and duplicate
\* groups are those of that scan alone: every record is of a file that
\* exists below the scanned root (directly inside it when the scan was not
\* recursive), and every group consists of records of this scan.
C14_ScanReplacesCatalog ==
  (response.op = "scan" /\ response.status = "200")
    => /\ \A i \in 1..Len(scan_results.files) :
            LET r == scan_results.files[i]
            IN /\ exists(fs, r.file_path)
               /\ IF response.recursive THEN Under(r.file_path, response.path)
                  ELSE Parent(r.file_path) = response.path
       /\ \A h \in DOMAIN scan_results.exact_duplicates :
            \A i \in 1..Len(scan_results.exact_duplicates[h]) :
              \E j \in 1..Len(scan_results.files) :
                scan_results.files[j] = scan_results.exact_duplicates[h][i]

\* A scan of a subdirectory completed when the catalog held records, and a
\* duplicate group, of files outside that subdirectory.
C14_Witness ==
  /\ response.op = "scan"
  /\ response.status = "200"
  /\ response.path = "/d/s"
  /\ scan_results.files # <<>>
  /\ DOMAIN before.scan_results.exact_duplicates # {}
  /\ \E i \in 1..Len(before.scan_results.files) :
       ~Under(before.scan_results.files[i].file_path, "/d/s")

----------------------------------------------------------------------------
(* Properties of the catalog under deletes *)

\* The positions of the records of path p
At(files, p) == {i \in 1..Len(files) : files[i].file_path = p}

\* C15: a delete that reaches the catalog removes exactly one record when a
\* record of the path is stored and none when there is none, leaves the
\* records of every other path as they were and in their order, and
\* removing the path once more changes nothing.
C15_RemoveByPath ==
  [][\A p \in DeleteInputs \ {""} :
       (DeleteFile(p) /\ response'.status = "200")
         => LET files == scan_results.files
                after == scan_results'.files
            IN /\ At(after, p) = {}
               /\ Cardinality(At(files, p)) <= 1
               /\ At(files, p) = {} => after = files
               /\ \A i \in At(files, p) :
                    after = SubSeq(files, 1, i - 1) \o SubSeq(files, i + 1, Len(files))
               /\ WithoutPath(after, p) = after]_vars

\* A delete removed the record of its path from between two others.
C15_Witness ==
  /\ response.op = "delete"
  /\ response.status = "200"
  /\ \E i \in 2..(Len(before.scan_results.files) - 1) :
       /\ before.scan_results.files[i].file_path = response.path
       /\ scan_results.files =
            SubSeq(before.scan_results.files, 1, i - 1)
              \o SubSeq(before.scan_results.files, i + 1, Len(before.scan_results.files))

\* C16: file_path identifies a record: no two stored records, all of one
\* scan, have the same file_path.
C16_PathsUnique ==
  \A i, j \in 1..Len(scan_results.files) :
    scan_results.files[i].file_path = scan_results.files[j].file_path => i = j

\* A scan stored the records of a file and of a symbolic link to it: same
\* size and fingerprint, different paths.
C16_Witness ==
  /\ response.op = "scan"
  /\ response.status = "200"
  /\ Len(scan_results.files) >= 3
  /\ \E i, j \in 1..Len(scan_results.files) :
       /\ i # j
       /\ is_symlink(fs, scan_results.files[j].file_path)
       /\ Resolve(fs, scan_results.files[j].file_path) = scan_results.files[i].file_path

----------------------------------------------------------------------------
(* Properties of the ledger history *)

\* C17: every record_deletion call leaves a history of at most 1000
\* entries that ends with the deletion just recorded, preceded by the
\* entries of before in their order, the oldest one dropped when there were
\* 1000 already; the call is counted in both totals whether or not an
\* entry was dropped.
C17_HistoryKeepsLatest ==
  [][recorded'.n = recorded.n + 1
       => LET new == [file_path |-> response'.path,
                      size_bytes |-> recorded'.bytes - recorded.bytes]
              old == stats.deletions
          IN /\ Len(stats'.deletions) <= 1000
             /\ stats'.deletions =
                  IF Len(old) < 1000 THEN old \o <<new>> ELSE Tail(old) \o <<new>>
             /\ stats'.total_files_deleted = stats.total_files_deleted + 1
             /\ stats'.total_bytes_saved = stats.total_bytes_saved + new.size_bytes]_vars

\* The history is full, entries were dropped, and the entries kept differ.
C17_Witness ==
  /\ Len(stats.deletions) = 1000
  /\ recorded.n >= 1002
  /\ stats.total_files_deleted = recorded.n
  /\ stats.deletions[1000].size_bytes = 2048
  /\ stats.deletions[999].file_path = "/d/b"
  /\ stats.deletions[1].file_path = "/d/a"

\* C18: the ledger changes only by a record_deletion call, and no call of
\* the tracker ever makes total_files_deleted or total_bytes_saved smaller,
\* in memory or in what the stats file holds.
C18_LedgerOnlyGrows ==
  [][response'.op \in {"record_deletion", "get_stats"}
       => /\ response'.op = "get_stats" => (stats' = stats /\ stats_file' = stats_file)
          /\ stats'.total_files_deleted >= stats.total_files_deleted
          /\ stats'.total_bytes_saved >= stats.total_bytes_saved
          /\ load_stats(stats_file').total_files_deleted
               >= load_stats(stats_file).total_files_deleted
          /\ load_stats(stats_file').total_bytes_saved
               >= load_stats(stats_file).total_bytes_saved]_vars

----------------------------------------------------------------------------
(* Properties of the directory summary when entries fail *)

\* The tree without p and everything below it.
RECURSIVE ABelow(_, _)
ABelow(p, d) == AParent(p) \in APaths /\ (AParent(p) = d \/ ABelow(AParent(p), d))

Without(f, p) == [x \in APaths |-> IF x = p \/ ABelow(x, p) THEN ANone ELSE f[x]]

\* The entries below d the aggregation fails on: a directory it cannot list
\* or search, an entry that is gone when it is stat'ed, an entry whose
\* lstat fails for the length of its path.
FailingEntries(f, d) ==
  {e \in APaths : /\ ReachableFrom(f, e, d)
                  /\ \/ f[e].kind \in {"vanished", "toolong"}
                     \/ f[e].kind = "dir" /\ f[e].mode # "rwx"
                                          /\ Name(e) \notin {"CloudStorage", "Mobile Documents"}}

\* C19: a summary of a directory that can itself be read returns, also when
\* the aggregation fails on entries below it: each such entry, with all
\* below it, adds 0 (the total is that of the tree without it), and every
\* regular file outside those entries, the other entries of the same
\* directory included, adds its size.
C19_ErrorsAddZero ==
  (response.op = "get_summary" /\ AnalyzeOutcome(fs, response.path) = "returned")
    => /\ response.status = "returned"
       /\ LET total == response.stats.total_size_bytes
              d == response.path
          IN /\ \A e \in FailingEntries(fs, d) : total = get_directory_size(Without(fs, e), d)
             /\ total = SumOver(fs, ReachableFiles(fs, d))

\* The process cannot read directory d itself: it has no permission to
\* list it, or d has entries and it has no permission to search it.
RootUnreadable(f, d) ==
  /\ f[d].kind = "dir"
  /\ AParent(d) \in APaths => f[AParent(d)].mode = "rwx"
  /\ \/ f[d].mode \in {"--x", "---"}
     \/ f[d].mode = "r--" /\ \E i \in 1..Len(AChildren(d)) : f[AChildren(d)[i]].kind # "none"

\* C20: a summary of a root the process cannot read fails as a whole with
\* PermissionError; no summary, of total size 0 or any other, is returned
\* for such a root.
C20_RootPermissionError ==
  (response.op = "get_summary" /\ RootUnreadable(fs, response.path))
    => response.status = "PermissionError"

\* The summary of a root with files below it that can be listed but not
\* searched has failed with PermissionError.
C20_Witness ==
  /\ response.op = "get_summary"
  /\ response.status = "PermissionError"
  /\ response.path = "/h"
  /\ fs["/h"].mode = "r--"
  /\ fs["/h/q/f"].kind = "file"
  /\ get_directory_size(fs, "/h") = 0

----------------------------------------------------------------------------
(* Properties of scans when entries fail *)

\* p lies below d and every directory from d down to p can be listed and
\* searched and is no symbolic link.
RECURSIVE Clear(_, _, _)
Clear(f, p, d) ==
  /\ Parent(p) \in Paths
  /\ f[Parent(p)] = DirEntry
  /\ (Parent(p) = d \/ Clear(f, Parent(p), d))

\* The regular files a scan of d owes a record: those outside every subtree
\* that cannot be read, directly inside d when the scan is not recursive.
Owed(f, d, recursive) ==
  {p \in Paths : /\ f[p].kind = "file"
                 /\ Clear(f, p, d)
                 /\ (recursive \/ Parent(p) = d)}

\* C21: a scan of a root that can be read completes also when one file or
\* one subtree below it cannot be stat'ed, read or type-checked: it returns
\* a record for every regular file outside that entry, and the duplicates
\* among those files are grouped.
C21_PerEntryAbsorbed ==
  (response.op = "scan" /\ fs[response.path] = DirEntry /\ ~StatDenied(fs, response.path))
    => /\ response.status = "200"
       /\ Owed(fs, response.path, response.recursive) \subseteq PathsOf(scan_results.files)
       /\ \A p, q \in Owed(fs, response.path, response.recursive) :
            (p # q /\ compute_file_hash(fs, p) = compute_file_hash(fs, q)
               /\ compute_file_hash(fs, p) # None)
              => /\ compute_file_hash(fs, p) \in DOMAIN scan_results.exact_duplicates
                 /\ {p, q} \subseteq PathsOf(scan_results.exact_duplicates[compute_file_hash(fs, p)])

----------------------------------------------------------------------------
(* SpecSteps: one scan_directory() call, or one get_summary() call, taken  *)
(* statement by statement. During a scan another process may remove files  *)
(* of the tree: what the scan listed can be gone when it is stat'ed, read  *)
(* or hashed. pc = [job, at] is the call and the statement it is at; local *)
(* holds the locals of the call.                                           *)

\* files another process removes during one scan
MaxRemoved == 1
\* the frames of get_directory_size on the stack, beyond which no call is made
MaxDepth == 4

\* The trees a scan is stepped through: a link back to the root, a file
\* that cannot be read, a subdirectory that cannot be listed or searched.
StepTrees ==
  { f \in Trees : /\ f["/d/a"] = FileEntry("x", TRUE)
                  /\ f["/d/b"] \in {FileEntry("x", TRUE), FileEntry("x", FALSE)}
                  /\ f["/d/k"] \in {NoEntry, LinkEntry("/d/a")}
                  /\ f["/d/s"] # NoEntry
                  /\ f["/d/s/c"] # NoEntry
                  /\ f["/d/s"] = DirEntry => f["/d/s/up"] = LinkEntry("/d") }

StepScanInputs == {"/d", "/d/a", "/nx"}

\* The files another process may remove
Removable == {"/d/a", "/d/b", "/d/s/c"}

ScanLocal(directory, recursive) ==
  [directory |-> directory, recursive |-> recursive, stack |-> <<>>, file_paths |-> <<>>,
   i |-> 1, files_info |-> <<>>, size |-> 0, listed |-> <<>>, tried |-> <<>>, removed |-> 0]

Pc(job, at) == [job |-> job, at |-> at]

\* The scan moves to statement `at` with its locals changed to l.
ScanGoto(at, l) ==
  /\ pc' = [pc EXCEPT !.at = at]
  /\ local' = l

\* The entries of d that rglob descends into
Subdirectories(f, d) ==
  LET Descend(e) == is_dir(f, e) /\ ~is_symlink(f, e) IN SelectSeq(iterdir(f, d), Descend)

\* The entries of d that the comprehension of lines 79/81 keeps
FilesOf(f, d) == LET IsFile(e) == is_file(f, e) IN SelectSeq(iterdir(f, d), IsFile)

\* Lines 69-81: the root checks; a scan that is not recursive lists the root
Scan_Start ==
  /\ pc = Pc("scan", "start")
  /\ LET d == local.directory
     IN IF ScanRaises(fs, d)
        THEN /\ ScanGoto("raised", local)
             /\ response' = [Response("scan", d, "ValueError", NoStats)
                               EXCEPT !.error = ScanError(fs, d)]
        ELSE IF local.recursive
        THEN /\ ScanGoto("walk", [local EXCEPT !.stack = <<d>>])
             /\ UNCHANGED response
        ELSE IF ListingRaises(fs, d, FALSE) \/ IsFileRaises(fs, d, FALSE)
        THEN /\ ScanGoto("raised", local)
             /\ response' = Response("scan", d, "PermissionError", NoStats)
        ELSE /\ ScanGoto("stat", [local EXCEPT !.file_paths = FilesOf(fs, d),
                                               !.listed = <<d>>])
             /\ UNCHANGED response
  /\ UNCHANGED <<stats, stats_file, recorded, interrupted, fs, scan_results, before, shopping_list_table, shop_history_table>>

\* Line 79: rglob lists the next directory, the comprehension checks its
\* entries with is_file(), and the directories among them are walked next
Scan_Walk ==
  /\ pc = Pc("scan", "walk")
  /\ IF local.stack = <<>>
     THEN ScanGoto("stat", local) /\ UNCHANGED response
     ELSE LET d == Head(local.stack)
          IN IF ListRaisesPermissionError(fs, d)
             THEN /\ ScanGoto("walk", [local EXCEPT !.stack = Tail(@)])
                  /\ UNCHANGED response
             ELSE IF \E i \in 1..Len(iterdir(fs, d)) : StatDenied(fs, iterdir(fs, d)[i])
             THEN /\ ScanGoto("raised", local)
                  /\ response' = Response("scan", local.directory, "PermissionError", NoStats)
             ELSE /\ ScanGoto("walk",
                         [local EXCEPT !.stack = Subdirectories(fs, d) \o Tail(@),
                                       !.file_paths = @ \o FilesOf(fs, d),
                                       !.listed = Append(@, d)])
                  /\ UNCHANGED response
  /\ UNCHANGED <<stats, stats_file, recorded, interrupted, fs, scan_results, before, shopping_list_table, shop_history_table>>

\* Line 85, past the last path: scan_directory returns; group_by_hash()
Scan_Return ==
  /\ pc = Pc("scan", "stat")
  /\ local.i > Len(local.file_paths)
  /\ ScanGoto("done", local)
  /\ scan_results' = [files |-> local.files_info,
                      exact_duplicates |-> group_by_hash(local.files_info)]
  /\ response' = Response("scan", local.directory, "returned", NoStats)
  /\ UNCHANGED <<stats, stats_file, recorded, interrupted, fs, before, shopping_list_table, shop_history_table>>

\* get_file_metadata returned None (lines 55-57): no record, next path
NoMetadata == [local EXCEPT !.i = @ + 1]

\* Lines 86 and 32: get_file_metadata(file_path) begins with stat()
Scan_Stat ==
  /\ pc = Pc("scan", "stat")
  /\ local.i <= Len(local.file_paths)
  /\ LET file_path == local.file_paths[local.i]
         tried == [local EXCEPT !.tried = Append(@, file_path)]
     IN IF os_path_exists(fs, file_path)
        THEN ScanGoto("read", [tried EXCEPT !.size = getsize(fs, file_path)])
        ELSE ScanGoto("stat", [tried EXCEPT !.i = @ + 1])
  /\ UNCHANGED <<stats, stats_file, recorded, interrupted, response, fs, scan_results, before, shopping_list_table, shop_history_table>>

\* Lines 36-40: the content is read; PermissionError is caught here, any
\* other error of open() at line 55
Scan_Read ==
  /\ pc = Pc("scan", "read")
  /\ IF os_path_exists(fs, local.file_paths[local.i])
     THEN ScanGoto("hash", local)
     ELSE ScanGoto("stat", NoMetadata)
  /\ UNCHANGED <<stats, stats_file, recorded, interrupted, response, fs, scan_results, before, shopping_list_table, shop_history_table>>

\* Lines 50 and 87-88: compute_file_hash(file_path), and the record is
\* appended; an exception of compute_file_hash would be caught at line 55
Scan_Hash ==
  /\ pc = Pc("scan", "hash")
  /\ LET file_path == local.file_paths[local.i]
         sha256_hash == compute_file_hash(fs, file_path)
     IN IF sha256_hash \in {Sha256("x"), Sha256("yy"), None}
        THEN /\ ScanGoto("stat",
                    [local EXCEPT !.i = @ + 1,
                                  !.files_info =
                                     Append(@, [file_path |-> file_path, size_bytes |-> local.size,
                                                sha256_hash |-> sha256_hash])])
             /\ response' = Response("compute_file_hash", file_path, "returned",
                                     [sha256_hash |-> sha256_hash])
        ELSE /\ ScanGoto("stat", NoMetadata)
             /\ response' = Response("compute_file_hash", file_path, "raised",
                                     [sha256_hash |-> sha256_hash])
  /\ UNCHANGED <<stats, stats_file, recorded, interrupted, fs, scan_results, before, shopping_list_table, shop_history_table>>

\* Another process removes file p while the scan runs.
FileRemoved(p) ==
  /\ pc.job = "scan"
  /\ pc.at \notin {"done", "raised"}
  /\ local.removed < MaxRemoved
  /\ fs[p].kind = "file"
  /\ fs' = [fs EXCEPT ![p] = NoEntry]
  /\ local' = [local EXCEPT !.removed = @ + 1]
  /\ UNCHANGED <<stats, stats_file, recorded, interrupted, response, scan_results, before, pc, shopping_list_table, shop_history_table>>

ScanStep == Scan_Start \/ Scan_Walk \/ Scan_Stat \/ Scan_Read \/ Scan_Hash \/ Scan_Return

\* The entry a path of the analyzer's tree leads to once its symbolic links
\* are followed.
RECURSIVE AFollow(_, _, _)
AFollow(f, p, fuel) ==
  IF f[p].kind # "link" THEN p
  ELSE IF fuel = 0 THEN "/nx"
  ELSE AFollow(f, f[p].target, fuel - 1)

AResolve(f, p) == AFollow(f, p, Cardinality(APaths))

\* A check that takes no entry for a symbolic link.
a_is_symlink_Never(f, p) == FALSE

\* Path.is_symlink does not follow links; Path.is_file and Path.is_dir do.
a_is_symlink(f, p) == f[p].kind = "link"
a_is_file(f, p) == f[AResolve(f, p)].kind = "file"
a_is_dir(f, p) == f[AResolve(f, p)].kind = "dir"

SummaryLocal(directory) ==
  [directory |-> directory, frames |-> <<>>, phase |-> "total", total_size |-> 0,
   entries |-> <<>>, j |-> 1, subdirs |-> <<>>, listed |-> <<>>]

\* The frame of a call get_directory_size(path): the entries iterdir() at
\* line 16 gives (none when it raises the PermissionError or
\* FileNotFoundError of line 31), the loop index, total_size.
Frame(f, path) ==
  [path |-> path,
   entries |-> IF f[AResolve(f, path)].kind # "dir" \/ ListRaises(f, AResolve(f, path))
               THEN <<>> ELSE a_iterdir(f, AResolve(f, path)),
   i |-> 1, total_size |-> 0]

\* The call get_directory_size(path) is made: its frame is pushed.
Call(l, path) ==
  [l EXCEPT !.frames = Append(@, Frame(fs, path)),
            !.listed = IF ListRaises(fs, AResolve(fs, path)) THEN @ ELSE Append(@, AResolve(fs, path))]

\* The frame on top with these changes
WithTop(l, top) == [l EXCEPT !.frames = [@ EXCEPT ![Len(@)] = top]]

\* Line 86: get_summary() calls get_directory_size(self.directory)
Summary_Start ==
  /\ pc = Pc("summary", "start")
  /\ IF DirectorySizeRaises(fs, local.directory)
     THEN /\ ScanGoto("raised", local)
          /\ response' = Response("get_summary", local.directory, "NotADirectoryError", NoStats)
     ELSE /\ ScanGoto("size", Call(local, local.directory))
          /\ UNCHANGED response
  /\ UNCHANGED <<stats, stats_file, recorded, interrupted, fs, scan_results, before, shopping_list_table, shop_history_table>>

\* Lines 16-30, one turn of the loop of the call on top of the stack
Size_Entry ==
  /\ pc = Pc("summary", "size")
  /\ LET top == local.frames[Len(local.frames)]
     IN /\ top.i <= Len(top.entries)
        /\ LET entry == top.entries[top.i]
               next == [top EXCEPT !.i = @ + 1]
           IN IF StatRaises(fs, entry)
              THEN /\ ScanGoto("size", WithTop(local, [top EXCEPT !.i = Len(top.entries) + 1]))
                   /\ UNCHANGED response
              ELSE IF fs[entry].kind = "toolong"
              THEN /\ ScanGoto("raised", local)
                   /\ response' = Response("get_summary", local.directory, "OSError", NoStats)
              ELSE IF a_is_symlink(fs, entry)
              THEN ScanGoto("size", WithTop(local, next)) /\ UNCHANGED response
              ELSE IF a_is_file(fs, entry)
              THEN /\ ScanGoto("size",
                          WithTop(local, [next EXCEPT !.total_size = @ + fs[AResolve(fs, entry)].size]))
                   /\ UNCHANGED response
              ELSE IF a_is_dir(fs, entry) /\ Name(entry) \notin MountNames
              THEN /\ Len(local.frames) < MaxDepth
                   /\ ScanGoto("size", Call(local, entry))
                   /\ UNCHANGED response
              ELSE ScanGoto("size", WithTop(local, next)) /\ UNCHANGED response
  /\ UNCHANGED <<stats, stats_file, recorded, interrupted, fs, scan_results, before, shopping_list_table, shop_history_table>>

\* Line 33: the call on top of the stack returns total_size, to the call
\* below it (line 30), to get_summary (line 86) or to
\* analyze_subdirectories (lines 68-75)
Size_Return ==
  /\ pc = Pc("summary", "size")
  /\ LET n == Len(local.frames)
         top == local.frames[n]
         popped == [local EXCEPT !.frames = SubSeq(@, 1, n - 1)]
     IN /\ top.i > Len(top.entries)
        /\ IF n > 1
           THEN ScanGoto("size",
                  WithTop(popped, [local.frames[n - 1] EXCEPT !.i = @ + 1,
                                                              !.total_size = @ + top.total_size]))
           ELSE IF local.phase = "total"
           THEN ScanGoto("analyze", [popped EXCEPT !.total_size = top.total_size])
           ELSE ScanGoto("subdirs",
                  [popped EXCEPT !.j = @ + 1,
                                 !.subdirs = Append(@, Subdir(Name(top.path), top.path,
                                                              top.total_size))])
  /\ UNCHANGED <<stats, stats_file, recorded, interrupted, response, fs, scan_results, before, shopping_list_table, shop_history_table>>

\* Lines 42-52: analyze_subdirectories checks the root and lists it
Summary_Analyze ==
  /\ pc = Pc("summary", "analyze")
  /\ IF AnalyzeOutcome(fs, local.directory) = "returned"
     THEN /\ ScanGoto("subdirs", [local EXCEPT !.phase = "subdirs",
                                               !.entries = a_iterdir(fs, local.directory)])
          /\ UNCHANGED response
     ELSE /\ ScanGoto("raised", local)
          /\ response' = Response("get_summary", local.directory,
                                  AnalyzeOutcome(fs, local.directory), NoStats)
  /\ UNCHANGED <<stats, stats_file, recorded, interrupted, fs, scan_results, before, shopping_list_table, shop_history_table>>

\* Lines 52-75, one turn of the loop
Summary_Subdir ==
  /\ pc = Pc("summary", "subdirs")
  /\ local.j <= Len(local.entries)
  /\ LET entry == local.entries[local.j]
         next == [local EXCEPT !.j = @ + 1]
     IN IF a_is_symlink(fs, entry) \/ ~a_is_dir(fs, entry)
        THEN ScanGoto("subdirs", next)
        ELSE IF Name(entry) \in MountNames
        THEN ScanGoto("subdirs",
               [next EXCEPT !.subdirs =
                  Append(@, Subdir(Name(entry) \o " (cloud/skipped)", entry, 0))])
        ELSE ScanGoto("size", Call([local EXCEPT !.listed = <<>>], entry))
  /\ UNCHANGED <<stats, stats_file, recorded, interrupted, response, fs, scan_results, before, shopping_list_table, shop_history_table>>

\* Lines 80-95: the sort, and the summary is returned
Summary_Return ==
  /\ pc = Pc("summary", "subdirs")
  /\ local.j > Len(local.entries)
  /\ ScanGoto("done", local)
  /\ response' = Response("get_summary", local.directory, "returned",
                          [directory |-> local.directory,
                           total_size_bytes |-> local.total_size,
                           subdirectory_count |-> Len(local.subdirs),
                           subdirectories |-> SortBySize(local.subdirs)])
  /\ UNCHANGED <<stats, stats_file, recorded, interrupted, fs, scan_results, before, shopping_list_table, shop_history_table>>

SummaryStep ==
  Summary_Start \/ Size_Entry \/ Size_Return \/ Summary_Analyze \/ Summary_Subdir \/ Summary_Return

\* The trees a summary is stepped through: a link back to the root, an
\* entry that is gone, a subdirectory that cannot be searched, a path that
\* is too long.
WalkTrees ==
  { TreeOf(ADir("rwx"), f, l, ADir("rwx"), p, AFile(4), ADir("rwx"), ADir("rwx"), qf) :
      f \in {AFile(1), AVanished},
      l \in {ALink("/h"), ALink("/h/p")},
      p \in {ADir("rwx"), ADir("r--")},
      qf \in {AFile(5), ATooLong} }

StepSummaryInputs == {"/h", "/h/p", "/h/f"}

InitSteps ==
  /\ \/ /\ fs \in StepTrees
        /\ pc = Pc("scan", "start")
        /\ local \in {ScanLocal(d, r) : d \in StepScanInputs, r \in BOOLEAN}
     \/ /\ fs \in WalkTrees
        /\ pc = Pc("summary", "start")
        /\ local \in {SummaryLocal(d) : d \in StepSummaryInputs}
  /\ stats_file = NoFile
  /\ stats = load_stats(stats_file)
  /\ recorded = [n |-> 0, bytes |-> 0]
  /\ interrupted = NotInterrupted
  /\ response = NoResponse
  /\ scan_results = IdleScanResults
  /\ before = IdleBefore
  /\ shopping_list_table = IdleShoppingList
  /\ shop_history_table = IdleShopHistory

NextSteps ==
  \/ ScanStep
  \/ SummaryStep
  \/ \E p \in Removable : FileRemoved(p)

SpecSteps == InitSteps /\ [][NextSteps]_vars

\* The interpreter runs the call on: a step it can take is taken.
FairSteps == SpecSteps /\ WF_vars(ScanStep \/ SummaryStep)

----------------------------------------------------------------------------
(* Properties of a scan taken step by step *)

\* C22: compute_file_hash returns the digest of the content or None and
\* raises nothing: for a file that cannot be read, or that was removed
\* since the scan listed it, it returns None, and the scan goes on with the
\* next path.
C22_FingerprintNeverRaises ==
  [][(pc.job = "scan" /\ pc.at = "hash" /\ pc' # pc)
       => LET file_path == local.file_paths[local.i]
              e == fs[Resolve(fs, file_path)]
          IN /\ response'.op = "compute_file_hash"
             /\ response'.path = file_path
             /\ response'.status = "returned"
             /\ response'.stats.sha256_hash = IF e.kind = "file" /\ e.readable
                                               THEN Sha256(e.content) ELSE "None"
             /\ pc'.at = "stat"
             /\ local'.i = local.i + 1
             /\ local'.file_paths = local.file_paths]_vars

\* A scan has returned with a record without fingerprint for a file that
\* was removed while it ran, one for a file that cannot be read, and after
\* them a record with a digest.
C22_Witness ==
  /\ pc = Pc("scan", "done")
  /\ \E i, j, k \in 1..Len(scan_results.files) :
       /\ i < k /\ j < k
       /\ scan_results.files[i].sha256_hash = "None"
       /\ fs[scan_results.files[i].file_path].kind = "none"
       /\ scan_results.files[j].sha256_hash = "None"
       /\ fs[scan_results.files[j].file_path] = FileEntry("x", FALSE)
       /\ scan_results.files[k].sha256_hash = Sha256("x")

\* No element of s occurs twice.
NoRepeat(s) == \A i, j \in 1..Len(s) : s[i] = s[j] => i = j

\* C23: a scan and a summary come to an end on every tree, one with a
\* symbolic link back to a directory above it included: within one walk no
\* directory is listed twice, no path is handed to get_file_metadata twice
\* (an entry that fails is left behind, never tried again), and the call
\* returns or raises.
C23_Terminates ==
  /\ [](/\ NoRepeat(local.listed)
        /\ pc.job = "scan" => NoRepeat(local.tried)
        /\ pc.job = "summary" => Len(local.frames) < MaxDepth)
  /\ <>(pc.at \in {"done", "raised"})

\* A summary has returned on a tree with a link back to the root, an entry
\* that was gone when it was stat'ed and a subdirectory that cannot be
\* searched.
C23_Witness ==
  /\ pc = Pc("summary", "done")
  /\ local.directory = "/h"
  /\ fs["/h/l"] = ALink("/h")
  /\ fs["/h/f"] = AVanished
  /\ fs["/h/p"] = ADir("r--")
  /\ response.status = "returned"
  /\ response.stats.total_size_bytes = 5 + 16

----------------------------------------------------------------------------
(* Properties of the subdirectory list *)

\* Where path p comes in the listing of directory d
IndexIn(d, p) == CHOOSE i \in 1..Len(AChildren(d)) : AChildren(d)[i] = p

\* C24: the subdirectories of a summary of D are the direct children of D
\* that are directories and no symbolic links, each exactly once, largest
\* first, those of equal size in the order D lists them; a child with a
\* denylisted name is there with size 0 and the mark (cloud/skipped), any
\* other with its name and the size of what is below it; and
\* subdirectory_count is the length of the list.
C24_OrderedSubdirectories ==
  (response.op = "get_summary" /\ response.status = "returned")
    => LET d == response.path
           subs == response.stats.subdirectories
       IN /\ {subs[i].path : i \in 1..Len(subs)}
                = {c \in APaths : AParent(c) = d /\ fs[c].kind = "dir"}
          /\ \A i, j \in 1..Len(subs) : subs[i].path = subs[j].path => i = j
          /\ \A i, j \in 1..Len(subs) :
               i < j => \/ subs[i].size_bytes > subs[j].size_bytes
                        \/ /\ subs[i].size_bytes = subs[j].size_bytes
                           /\ IndexIn(d, subs[i].path) < IndexIn(d, subs[j].path)
          /\ \A i \in 1..Len(subs) :
               IF Name(subs[i].path) \in {"CloudStorage", "Mobile Documents"}
               THEN /\ subs[i].size_bytes = 0
                    /\ subs[i].name = Name(subs[i].path) \o " (cloud/skipped)"
               ELSE /\ subs[i].size_bytes = SumOver(fs, ReachableFiles(fs, subs[i].path))
                    /\ subs[i].name = Name(subs[i].path)
          /\ response.stats.subdirectory_count = Len(subs)

\* The summary of a tree where the denylisted child holds more than the
\* others and is listed first: the largest comes first, two children of
\* equal size keep their order, the denylisted one is last with 0, next to
\* a symbolic link to a directory that is not listed at all.
C24_Witness ==
  /\ response.op = "get_summary"
  /\ response.status = "returned"
  /\ response.path = "/h"
  /\ fs["/h/CloudStorage"].kind = "dir"
  /\ fs["/h/l"] = ALink("/h/p")
  /\ response.stats.subdirectory_count = 3
  /\ response.stats.subdirectories =
       << Subdir("p", "/h/p", 4), Subdir("q", "/h/q", 4),
          Subdir("CloudStorage (cloud/skipped)", "/h/CloudStorage", 0) >>
  /\ response.stats.total_size_bytes = 4 + 4 + 16

----------------------------------------------------------------------------
(* SpecFormat: _human_readable_size(size_bytes), the same code in          *)
(* DirectoryAnalyzer, FileScanner and StatsTracker. A byte count is kept   *)
(* as its digits in base 1024, lowest first, so that counts beyond 2^31    *)
(* can be told apart: each division by 1024.0 moves the lowest digit of    *)
(* the integer part to the front of the fraction. The counts taken have at *)
(* most 50 significant bits, for which float arithmetic is exact.          *)

\* the digits a byte count is made of
Digits == {0, 1, 512, 1023}
\* the longest byte count, in digits
MaxDigits == 7

\* ['B', 'KB', 'MB', 'GB', 'TB'], then PB
Units == <<"B", "KB", "MB", "GB", "TB", "PB">>

\* Byte counts: 0, and the digit sequences without a leading zero whose
\* digits below the highest five are 0 and whose digits from 1024^6 on are
\* 0 or 1.
ByteCounts ==
  {<<0>>} \cup
  UNION { { n \in [1..len -> Digits] :
              /\ n[len] # 0
              /\ \A i \in 1..(len - 5) : n[i] = 0
              /\ \A i \in 7..len : n[i] <= 1 } : len \in 1..MaxDigits }

\* The integer that the digits stand for
RECURSIVE IntOf(_)
IntOf(ds) == IF ds = <<>> THEN 0 ELSE ds[1] + 1024 * IntOf(Tail(ds))

\* 100 times the fraction 0.frac (highest digit first), from digit i down:
\* the digits of the product, and what is carried into the integer part.
RECURSIVE Times100(_, _)
Times100(frac, i) ==
  IF i > Len(frac) THEN [digits |-> <<>>, carry |-> 0]
  ELSE LET rest == Times100(frac, i + 1)
           v == frac[i] * 100 + rest.carry
       IN [digits |-> <<v % 1024>> \o rest.digits, carry |-> v \div 1024]

\* f"{size_bytes:.2f}": the value in hundredths, rounded to the nearest,
\* a tie to the even one
Hundredths(int, frac) ==
  LET p == Times100(frac, 1)
      floor == IntOf(int) * 100 + p.carry
      e == p.digits
      above == e # <<>> /\ (e[1] > 512 \/ (e[1] = 512 /\ \E i \in 2..Len(e) : e[i] # 0))
      tie == e # <<>> /\ e[1] = 512 /\ \A i \in 2..Len(e) : e[i] = 0
  IN IF above \/ (tie /\ floor % 2 = 1) THEN floor + 1 ELSE floor

\* A loop that also takes 1024 itself for a value of the unit.
RECURSIVE FormatLoop_AtMost(_, _, _)
FormatLoop_AtMost(int, frac, u) ==
  IF u = 6 \/ Len(int) <= 1 \/ (int = <<0, 1>> /\ \A i \in 1..Len(frac) : frac[i] = 0)
  THEN [hundredths |-> Hundredths(int, frac), unit |-> Units[u]]
  ELSE FormatLoop_AtMost(Tail(int), <<Head(int)>> \o frac, u + 1)

\* Lines 99-103: the loop over the units, at unit number u, size_bytes
\* being int + 0.frac
RECURSIVE FormatLoop(_, _, _)
FormatLoop(int, frac, u) ==
  IF u = 6 \/ Len(int) <= 1
  THEN [hundredths |-> Hundredths(int, frac), unit |-> Units[u]]
  ELSE FormatLoop(Tail(int), <<Head(int)>> \o frac, u + 1)

\* _human_readable_size(size_bytes)
human_readable_size(size_bytes) == FormatLoop(size_bytes, <<>>, 1)

InitFormat ==
  /\ local \in ByteCounts
  /\ pc = "call"
  /\ response = NoResponse
  /\ fs = IdleFs
  /\ stats_file = NoFile
  /\ stats = load_stats(stats_file)
  /\ recorded = [n |-> 0, bytes |-> 0]
  /\ interrupted = NotInterrupted
  /\ scan_results = IdleScanResults
  /\ before = IdleBefore
  /\ shopping_list_table = IdleShoppingList
  /\ shop_history_table = IdleShopHistory

\* self._human_readable_size(size_bytes)
HumanReadableSize ==
  /\ pc = "call"
  /\ pc' = "returned"
  /\ response' = Response("_human_readable_size", "", "returned", human_readable_size(local))
  /\ UNCHANGED <<stats, stats_file, recorded, interrupted, fs, scan_results, before, local, shopping_list_table, shop_history_table>>

NextFormat == HumanReadableSize

SpecFormat == InitFormat /\ [][NextFormat]_vars

\* The unit of byte count n: B below 1024, KB below 1024^2, ..., PB from
\* 1024^5 on (n is below 1024^k exactly when it has at most k digits).
UnitFor(n) == Units[IF Len(n) > 6 THEN 6 ELSE Len(n)]

\* C25, as claimed: for every byte count the unit is B below 1024, KB from
\* 1024 to below 1024^2, and so on up to PB, and the value shown is always
\* below 1024.
C25_ShownBelow1024 ==
  pc = "returned"
    => /\ response.stats.unit = UnitFor(local)
       /\ response.stats.hundredths < 102400

\* C25, amended: the unit is B below 1024, KB from 1024 to below 1024^2,
\* and so on, PB from 1024^5 on; below 1024^6 the scaled value is below
\* 1024 and the value shown, rounded to two decimals, is at most 1024.00,
\* which it is only for a scaled value of 1023.995 or more; from 1024^6 on
\* the value shown in PB is 1024.00 or more.
C25_ScaledBelow1024 ==
  pc = "returned"
    => LET n == local
           shown == response.stats.hundredths
           top == n[Len(n)]
       IN /\ response.stats.unit = UnitFor(n)
          /\ Len(n) <= 6
               => /\ shown >= top * 100
                  /\ shown <= top * 100 + 100
                  /\ shown <= 102400
                  /\ shown = 102400
                       => (top = 1023 /\ Len(n) > 1 /\ n[Len(n) - 1] >= 1018)
          /\ Len(n) > 6 => shown >= 102400

\* 1024^2 - 1 bytes were formatted: 1024.00 KB.
C25_Witness ==
  /\ pc = "returned"
  /\ local = <<1023, 1023>>
  /\ response.stats = [hundredths |-> 102400, unit |-> "KB"]

----------------------------------------------------------------------------
(* SpecShop: the Lambda function storeShop (src/lambda/storeShop.py) on    *)
(* the two DynamoDB tables, one invocation after the other. Every call to  *)
(* DynamoDB either succeeds or raises (a ClientError); the handler's       *)
(* try/except blocks decide what becomes of the exception. pc is the       *)
(* statement the handler is at, local its variables.                       *)

\* invocations of the handler in one run
MaxShops == 2

\* The keys of the items, in the order table.scan() returns them
ScanOrder == <<"G1", "G2", "N1", "T1">>

ItemKeys == {ScanOrder[i] : i \in 1..Len(ScanOrder)}

\* item['userId'] of the item with key k
UserOf(k) ==
  CASE k \in {"G1", "G2"} -> "Gianluca"
    [] k = "N1" -> "Nicole"
    [] OTHER -> "TestUser"

NoItem == [present |-> FALSE, userId |-> "", bought |-> FALSE]
Item(k, bought) == [present |-> TRUE, userId |-> UserOf(k), bought |-> bought]

\* The shopping lists an invocation can find
ShoppingLists ==
  { [k \in ItemKeys |-> IF t[k] = "none" THEN NoItem ELSE Item(k, t[k] = "ticked")] :
      t \in { u \in [ItemKeys -> {"none", "ticked", "unticked"}] :
                 u["G1"] # "none" /\ u["N1"] # "none" /\ u["T1"] # "none" } }

\* A record of the shop history
Shop(shopId, shopDate, items) == [shopId |-> shopId, shopDate |-> shopDate, items |-> items]

\* The shop histories an invocation can find
ShopHistories ==
  { {}, {Shop(1, "yesterday", <<"G1">>)},
    {Shop(1, "yesterday", <<"G1">>), Shop(2, "today", <<"N1">>)} }

\* Line 56
allowed_users == {"Gianluca", "Nicole"}

ShopLocal ==
  [items |-> [k \in ItemKeys |-> NoItem], user_items |-> <<>>, ticked_items |-> <<>>,
   shop_id |-> 0, i |-> 1, unticked_count |-> 0, calls |-> 0]

InitShop ==
  /\ shopping_list_table \in ShoppingLists
  /\ shop_history_table \in ShopHistories
  /\ pc = "idle"
  /\ local = ShopLocal
  /\ response = NoResponse
  /\ fs = IdleFs
  /\ stats_file = NoFile
  /\ stats = load_stats(stats_file)
  /\ recorded = [n |-> 0, bytes |-> 0]
  /\ interrupted = NotInterrupted
  /\ scan_results = IdleScanResults
  /\ before = IdleBefore

\* Lines 188-200: an exception reached the outer handler
ShopFailed ==
  /\ pc' = "idle"
  /\ response' = Response("storeShop", "", "500", NoStats)

\* Lines 45-77: the list is read, filtered to the allowed users and split;
\* with nothing ticked the answer is 400
Shop_Scan(ok) ==
  /\ pc = "idle"
  /\ local.calls < MaxShops
  /\ LET items == shopping_list_table
         IsUserItem(k) == items[k].present /\ items[k].userId \in allowed_users
         user_items == SelectSeq(ScanOrder, IsUserItem)
         IsTicked(k) == items[k].bought
         ticked_items == SelectSeq(user_items, IsTicked)
         called == [ShopLocal EXCEPT !.calls = local.calls + 1]
     IN IF ~ok
        THEN ShopFailed /\ local' = called
        ELSE /\ local' = [called EXCEPT !.items = items, !.user_items = user_items,
                                        !.ticked_items = ticked_items,
                                        !.shop_id = 2 + called.calls]
             /\ IF ticked_items = <<>>
                THEN /\ pc' = "idle"
                     /\ response' = Response("storeShop", "", "400", NoStats)
                ELSE /\ pc' = "delete"
                     /\ UNCHANGED response
  /\ UNCHANGED <<stats, stats_file, recorded, interrupted, fs, scan_results, before,
                 shopping_list_table, shop_history_table>>

\* Lines 87-106: the shops of today are deleted; an exception is logged
\* and the handler goes on
Shop_DeletePrevious(ok) ==
  /\ pc = "delete"
  /\ pc' = "put"
  /\ shop_history_table' =
       IF ok THEN {shop \in shop_history_table : shop.shopDate # "today"}
       ELSE shop_history_table
  /\ UNCHANGED <<stats, stats_file, recorded, interrupted, response, fs, scan_results, before,
                 local, shopping_list_table>>

\* Lines 108-146: the record of the ticked items is put into the history
Shop_Put(ok) ==
  /\ pc = "put"
  /\ IF ok
     THEN /\ shop_history_table' =
               shop_history_table \cup {Shop(local.shop_id, "today", local.ticked_items)}
          /\ pc' = "untick"
          /\ UNCHANGED response
     ELSE ShopFailed /\ UNCHANGED shop_history_table
  /\ UNCHANGED <<stats, stats_file, recorded, interrupted, fs, scan_results, before,
                 local, shopping_list_table>>

\* Lines 150-164, one turn of the loop: update_item sets bought to False
\* (and creates the item when the key is not there); an exception is logged
\* and the loop goes on
Shop_Untick(ok) ==
  /\ pc = "untick"
  /\ local.i <= Len(local.ticked_items)
  /\ LET k == local.ticked_items[local.i]
     IN IF ok
        THEN /\ shopping_list_table' = [shopping_list_table EXCEPT ![k] = Item(k, FALSE)]
             /\ local' = [local EXCEPT !.i = @ + 1, !.unticked_count = @ + 1]
        ELSE /\ UNCHANGED shopping_list_table
             /\ local' = [local EXCEPT !.i = @ + 1]
  /\ UNCHANGED <<stats, stats_file, recorded, interrupted, response, fs, scan_results, before,
                 pc, shop_history_table>>

\* Lines 166-186: the answer 201
Shop_Return ==
  /\ pc = "untick"
  /\ local.i > Len(local.ticked_items)
  /\ pc' = "idle"
  /\ response' = Response("storeShop", "", "201",
                          [shopId |-> local.shop_id,
                           totalItems |-> Len(local.ticked_items),
                           itemsUnticked |-> local.unticked_count,
                           totalItemsOnList |-> Len(local.user_items)])
  /\ UNCHANGED <<stats, stats_file, recorded, interrupted, fs, scan_results, before,
                 local, shopping_list_table, shop_history_table>>

NextShop ==
  \/ \E ok \in BOOLEAN : Shop_Scan(ok)
  \/ \E ok \in BOOLEAN : Shop_DeletePrevious(ok)
  \/ \E ok \in BOOLEAN : Shop_Put(ok)
  \/ \E ok \in BOOLEAN : Shop_Untick(ok)
  \/ Shop_Return

SpecShop == InitShop /\ [][NextShop]_vars

\* The items of the allowed users that were ticked in the list as read
TickedWhenRead(items) ==
  {k \in ItemKeys : items[k].present /\ items[k].userId \in {"Gianluca", "Nicole"}
                    /\ items[k].bought}

\* C26: when storeShop has answered 201, the new record of the shop history
\* holds exactly the allowed users' items that were ticked when the call
\* read the list, each of those items is on the shopping list with
\* bought = False, and every other item of the list is as it was read.
C26_TickedStoredAndUnticked ==
  (response.op = "storeShop" /\ response.status = "201")
    => LET ticked == TickedWhenRead(local.items)
       IN /\ \E shop \in shop_history_table :
               /\ shop.shopId = response.stats.shopId
               /\ {shop.items[i] : i \in 1..Len(shop.items)} = ticked
               /\ Len(shop.items) = Cardinality(ticked)
          /\ \A k \in ticked : /\ shopping_list_table[k].present
                                /\ shopping_list_table[k].bought = FALSE
          /\ \A k \in ItemKeys \ ticked : shopping_list_table[k] = local.items[k]

----------------------------------------------------------------------------
(* Properties of a delete as a whole *)

\* C27: a delete is all or nothing over the file, the ledger and the
\* catalog: when the call has returned, either the file is removed, the
\* ledger counts the deletion (one more file, its size more bytes, an entry
\* for it at the end of the history) and no stored record and no duplicate
\* group holds the path, or the filesystem, the ledger and the catalog are
\* all as they were.
C27_AllOrNothing ==
  [][\A p \in DeleteInputs :
       DeleteFile(p)
         => \/ /\ p # ""
               /\ fs[p].kind # "none"
               /\ fs'[p].kind = "none"
               /\ {"total_files_deleted", "total_bytes_saved", "deletions"} \subseteq stats'.keys
               /\ stats'.total_files_deleted = stats.total_files_deleted + 1
               /\ stats'.total_bytes_saved = stats.total_bytes_saved + getsize(fs, p)
               /\ stats'.deletions # <<>>
               /\ stats'.deletions[Len(stats'.deletions)].file_path = p
               /\ p \notin PathsOf(scan_results'.files)
               /\ \A h \in DOMAIN scan_results'.exact_duplicates :
                    p \notin PathsOf(scan_results'.exact_duplicates[h])
            \/ /\ fs' = fs
               /\ stats' = stats
               /\ stats_file' = stats_file
               /\ scan_results' = scan_results]_vars

\* C28: the stored duplicate groups are what group_by_hash returns over the
\* stored file records, after every scan and every delete: the same hashes,
\* the same members in the same order, and every member of a group is one
\* of the stored records.
C28_GroupsRecomputable ==
  /\ scan_results.exact_duplicates = group_by_hash(scan_results.files)
  /\ \A h \in DOMAIN scan_results.exact_duplicates :
       \A i \in 1..Len(scan_results.exact_duplicates[h]) :
         \E j \in 1..Len(scan_results.files) :
           scan_results.files[j] = scan_results.exact_duplicates[h][i]

\* A delete has succeeded on a member of a group, and the group is still
\* stored with the members that are left.
C28_Witness ==
  /\ response.op = "delete"
  /\ response.status = "200"
  /\ \E h \in DOMAIN before.scan_results.exact_duplicates :
       /\ response.path \in PathsOf(before.scan_results.exact_duplicates[h])
       /\ h \in DOMAIN scan_results.exact_duplicates
       /\ Len(scan_results.exact_duplicates[h]) = 2

----------------------------------------------------------------------------
(* The history of the ledger against its totals *)

\* No call is inside record_deletion.
LedgerAtRest ==
  \A t \in DOMAIN pc :
    pc[t] \notin {"load45", "store45", "load46", "store46", "append", "open", "dump", "close"}

\* C29: from a fresh ledger, whenever no record_deletion call is under way,
\* the history has min(total_files_deleted, 1000) entries and the sizes in
\* it sum to at most total_bytes_saved, to exactly total_bytes_saved while
\* total_files_deleted is at most 1000.
C29_HistoryMatchesTotals ==
  LedgerAtRest
    => /\ Len(stats.deletions) =
            IF stats.total_files_deleted < HistoryCap
            THEN stats.total_files_deleted ELSE HistoryCap
       /\ SumSizes(stats.deletions) <= stats.total_bytes_saved
       /\ stats.total_files_deleted <= HistoryCap
            => SumSizes(stats.deletions) = stats.total_bytes_saved

----------------------------------------------------------------------------
(* The total of a summary against its parts *)

\* The regular files right inside d; a symbolic link is an entry of its own
\* kind and is none of them.
DirectFiles(f, d) ==
  {p \in APaths : f[p].kind = "file" /\ \E i \in 1..Len(AChildren(d)) : AChildren(d)[i] = p}

RECURSIVE SumSubdirs(_, _)
SumSubdirs(subdirs, i) ==
  IF i > Len(subdirs) THEN 0 ELSE subdirs[i].size_bytes + SumSubdirs(subdirs, i + 1)

\* C30: on a tree that does not change during the call, the
\* total_size_bytes of a summary is the sum of the sizes of the regular
\* files, symbolic links left out, right inside the directory plus the sum
\* of size_bytes over the subdirectories the summary lists.
C30_TotalIsSumOfParts ==
  (response.op = "get_summary" /\ response.status = "returned")
    => response.stats.total_size_bytes =
         SumOver(fs, DirectFiles(fs, response.path))
           + SumSubdirs(response.stats.subdirectories, 1)

\* A summary of a directory that holds files, a symbolic link to a file, a
\* denylisted directory with a file in it and two measured subdirectories.
C30_Witness ==
  /\ response.op = "get_summary"
  /\ response.status = "returned"
  /\ response.path = "/h"
  /\ fs["/h/f"].kind = "file"
  /\ fs["/h/l"] = ALink("/h/f")
  /\ fs["/h/CloudStorage/g"].kind = "file"
  /\ Len(response.stats.subdirectories) = 3
  /\ response.stats.subdirectories[1].size_bytes = 5
  /\ response.stats.subdirectories[2].size_bytes = 4
  /\ response.stats.total_size_bytes = 1 + 16 + 5 + 4

====
